---- MODULE Spec2Model ----
(***************************************************************************)
(* Non-volatile-memory programming layer of the Black Magic Debug probe:   *)
(* the STM32L0/L1 register-sequence driver (src/target/stm32l0.c) and the  *)
(* LPC546xx call-stub driver.  The driver is a single thread of control;   *)
(* the target device and the debug transport are the environment.          *)
(*                                                                         *)
(* 32-bit register values are sets of bit numbers ("|" is \cup, "&" is     *)
(* \cap); 32-bit data words are pairs <<high half, low half>> of 16-bit    *)
(* numbers, since several of the driver's constants exceed 2^31.           *)
(***************************************************************************)
EXTENDS Integers, Sequences, FiniteSets, TLC

(* ------------------------------ bounds -------------------------------- *)
\* most iterations of one busy-poll loop that the model follows
MaxPolls == 2
\* most 32-bit words in a source buffer handed to a write operation
MaxWords == 2
\* progress-callback invocations are counted up to this number
MaxProgress == 10
\* the longest range (bytes) the model erases in one call
MaxEraseLen == 1024

(* ------------------------- program constants -------------------------- *)
STM32Lx_FLASH_BANK_BASE == 134217728   \* 0x08000000
STM32L0_FLASH_PAGE_SIZE == 128         \* 0x80
STM32Lx_EEPROM_BASE == 134742016       \* 0x08080000
STM32L0_FLASH_BASE == 1073881088       \* 0x40022000
STM32L1_FLASH_BASE == 1073888256       \* 0x40023c00
STM32L0_FLASH_OPT_SIZE == 12
STM32L1_FLASH_OPT_SIZE == 32
STM32L0_FLASH_EEPROM_CAT1_SIZE == 512
STM32L0_FLASH_EEPROM_CAT2_SIZE == 1024
STM32L0_FLASH_EEPROM_CAT3_SIZE == 2048
STM32L0_FLASH_EEPROM_CAT5_SIZE == 6144
STM32L1_FLASH_EEPROM_SIZE == 16384
STM32Lx_FLASH_OPT_BASE == 536346624    \* 0x1ff80000
STM32Lx_FLASH_EEPROM_BASE == 134742016 \* 0x08080000
STM32L0_UID_FLASH_SIZE == 536346748    \* 0x1ff8007c
STM32Lx_FLASH_OPTR_RDPROT_MASK == 255  \* 0xff
STM32Lx_FLASH_OPTR_RDPROT_0 == 170     \* 0xaa
STM32Lx_FLASH_OPTR_RDPROT_2 == 204     \* 0xcc
ID_STM32L01x == 1111                   \* 0x457
ID_STM32L03x == 1061                   \* 0x425
ID_STM32L05x == 1047                   \* 0x417
ID_STM32L07x == 1095                   \* 0x447

STM32Lx_FLASH_PECR(flash_base) == flash_base + 4
STM32Lx_FLASH_PEKEYR(flash_base) == flash_base + 12
STM32Lx_FLASH_PRGKEYR(flash_base) == flash_base + 16
STM32Lx_FLASH_OPTKEYR(flash_base) == flash_base + 20
STM32Lx_FLASH_SR(flash_base) == flash_base + 24
STM32Lx_FLASH_OPTR(flash_base) == flash_base + 28

\* key words, <<high half, low half>>
STM32Lx_FLASH_PEKEY1 == <<35243, 52719>>   \* 0x89abcdef
STM32Lx_FLASH_PEKEY2 == <<515, 1029>>      \* 0x02030405
STM32Lx_FLASH_PRGKEY1 == <<35997, 44735>>  \* 0x8c9daebf
STM32Lx_FLASH_PRGKEY2 == <<4884, 5398>>    \* 0x13141516
STM32Lx_FLASH_OPTKEY1 == <<64490, 55752>>  \* 0xfbead9c8
STM32Lx_FLASH_OPTKEY2 == <<9253, 9767>>    \* 0x24252627

\* control register bits
STM32Lx_FLASH_PECR_OBL_LAUNCH == {18}
STM32Lx_FLASH_PECR_FPRG == {10}
STM32Lx_FLASH_PECR_ERASE == {9}
STM32Lx_FLASH_PECR_FIX == {8}
STM32Lx_FLASH_PECR_DATA == {4}
STM32Lx_FLASH_PECR_PROG == {3}
STM32Lx_FLASH_PECR_OPTLOCK == {2}
STM32Lx_FLASH_PECR_PRGLOCK == {1}
STM32Lx_FLASH_PECR_PELOCK == {0}

\* status register bits
STM32Lx_FLASH_SR_NOTZEROERR == {16}
STM32Lx_FLASH_SR_SIZERR == {10}
STM32Lx_FLASH_SR_PGAERR == {9}
STM32Lx_FLASH_SR_WRPERR == {8}
STM32Lx_FLASH_SR_BSY == {0}
STM32Lx_FLASH_SR_ERR_MASK ==
    STM32Lx_FLASH_SR_WRPERR \cup STM32Lx_FLASH_SR_PGAERR \cup
    STM32Lx_FLASH_SR_SIZERR \cup STM32Lx_FLASH_SR_NOTZEROERR

\* words the protection-clearing mass erase writes to the option window
OPT_WIPE_1 == <<65535, 0>>      \* 0xffff0000
OPT_WIPE_2 == <<65365, 170>>    \* 0xff5500aa
ZERO32 == <<0, 0>>

(* ------------------------------- state -------------------------------- *)
VARIABLES
    chip,     \* the attached device's identity (fixed for a session)
    tgt,      \* target_s: driver, part_id, flash (region list), attach, mass_erase
    dev,      \* the device's flash controller and non-volatile memory
    terr,     \* the transport's pending-error flag (target_check_error reads and clears it)
    pc,       \* position of the driver's single thread of control
    op,       \* the operation in progress
    arg,      \* its arguments
    loc,      \* its local variables
    ret,      \* its return value (meaningful at pc = "done")
    wlog,     \* transport writes it has issued, in order
    nacc,     \* transport accesses (reads, writes, resets) it has issued
    tmo,      \* its timeout/progress bookkeeping and poll trace
    hist      \* the operation completed before it, where memory content is followed

vars == <<chip, tgt, dev, terr, pc, op, arg, loc, ret, wlog, nacc, tmo, hist>>

(* ------------------------------ helpers ------------------------------- *)
Min(a, b) == IF a < b THEN a ELSE b

\* one logged transport write: k is the access kind, a the address, bits the
\* value of a register write, val the value of a data/key write, data the
\* payload of a block write
W(k, a, bits, val, data) == [k |-> k, a |-> a, bits |-> bits, val |-> val, data |-> data]
WReg(a, bits) == W("w32", a, bits, ZERO32, <<>>)
WVal(a, val) == W("w32", a, {}, val, <<>>)

\* data words used by the model's source buffers; Garbage stands for what a
\* read past the end of a source buffer may yield
WordVals == {<<0, 1>>, <<0, 2>>}
Garbage == WordVals \cup {<<65535, 65535>>}
ERASED == ZERO32
CORRUPT == <<65535, 65534>>

(* ------------------------- target description ------------------------- *)
stm32lx_is_stm32l1(part_id) ==
    part_id # 1111 /\ part_id # 1061 /\ part_id # 1047 /\ part_id # 1095

stm32lx_nvm_eeprom_size(part_id) ==
    CASE part_id = 1111 -> STM32L0_FLASH_EEPROM_CAT1_SIZE
      [] part_id = 1061 -> STM32L0_FLASH_EEPROM_CAT2_SIZE
      [] part_id = 1047 -> STM32L0_FLASH_EEPROM_CAT3_SIZE
      [] part_id = 1095 -> STM32L0_FLASH_EEPROM_CAT5_SIZE
      [] OTHER -> STM32L1_FLASH_EEPROM_SIZE

stm32lx_flash_base(part_id) ==
    IF stm32lx_is_stm32l1(part_id) THEN STM32L1_FLASH_BASE ELSE STM32L0_FLASH_BASE

stm32lx_nvm_option_size(part_id) ==
    IF stm32lx_is_stm32l1(part_id) THEN STM32L1_FLASH_OPT_SIZE ELSE STM32L0_FLASH_OPT_SIZE

\* target_flash_s as stm32l_add_flash fills it in (writesize = erasesize >> 1)
stm32l_add_flash(addr, length, erasesize) ==
    [start |-> addr, length |-> length, blocksize |-> erasesize,
     erase |-> "stm32lx_flash_erase", write |-> "stm32lx_flash_write",
     writesize |-> erasesize \div 2]

\* target_flash_s as stm32l_add_eeprom fills it in (calloc leaves writesize 0)
stm32l_add_eeprom(addr, length) ==
    [start |-> addr, length |-> length, blocksize |-> 4,
     erase |-> "stm32lx_eeprom_erase", write |-> "stm32lx_eeprom_write",
     writesize |-> 0]

NoTarget ==
    [driver |-> "", part_id |-> 0, flash |-> <<>>, ram |-> <<>>, commands |-> "",
     attach |-> "cortexm_attach", mass_erase |-> "", reset_attached |-> FALSE]

(* ------------------------- the device (environment) ------------------- *)
(* The flash controller as the driver's register accesses assume it: PECR  *)
(* with its three lock bits and the operation-select bits, the key         *)
(* registers, the sticky error bits of SR, the option word at the start of *)
(* the option window with the read-protection byte loaded from it, and a   *)
(* few words of program flash and of data EEPROM.  Whether the device      *)
(* performs a request is the environment's choice (parameter acc).         *)
LockBits ==
    STM32Lx_FLASH_PECR_PELOCK \cup STM32Lx_FLASH_PECR_PRGLOCK \cup STM32Lx_FLASH_PECR_OPTLOCK

DevBase == IF chip.fam = "L1" THEN STM32L1_FLASH_BASE ELSE STM32L0_FLASH_BASE
DevPage == IF chip.fam = "L1" THEN 256 ELSE STM32L0_FLASH_PAGE_SIZE

\* the words of non-volatile memory whose content the model follows
Tracked ==
    {STM32Lx_FLASH_BANK_BASE + 4 * k : k \in 0 .. chip.track - 1} \cup
    {STM32Lx_EEPROM_BASE + 4 * k : k \in 0 .. chip.track - 1}

IsFlashAddr(a) == a >= STM32Lx_FLASH_BANK_BASE /\ a < STM32Lx_EEPROM_BASE
IsEepromAddr(a) == a >= STM32Lx_EEPROM_BASE /\ a < STM32Lx_EEPROM_BASE + STM32L1_FLASH_EEPROM_SIZE
WordOf(a) == a - (a % 4)
PageOf(a) == a - (a % DevPage)

\* byte i (0 = least significant) of a 32-bit word, and the word with it replaced
GetByte(w, i) ==
    LET h == IF i >= 2 THEN w[1] ELSE w[2]
    IN  IF i % 2 = 0 THEN h % 256 ELSE h \div 256
SetByte(w, i, b) ==
    LET h == IF i >= 2 THEN w[1] ELSE w[2]
        nh == IF i % 2 = 0 THEN (h \div 256) * 256 + b ELSE b * 256 + (h % 256)
    IN  IF i >= 2 THEN <<nh, w[2]>> ELSE <<w[1], nh>>

\* the content of the word at WordOf(a) after a store of the low n bytes of val at a
Merge(old, a, n, val) ==
    IF n = 4 THEN val
    ELSE IF n = 2 THEN SetByte(SetByte(old, a % 4, GetByte(val, 0)), (a % 4) + 1, GetByte(val, 1))
    ELSE SetByte(old, a % 4, GetByte(val, 0))

WidthOf(k) == IF k = "w16" THEN 2 ELSE IF k = "w8" THEN 1 ELSE 4

\* the device raises error bits: they stay in SR until cleared by a write of
\* the mask; raised keeps those raised since the current operation was called
DevSetErr(d, bits) == [d EXCEPT !.srerr = @ \cup bits, !.raised = @ \cup bits]

\* a store to program flash
DevFlashStore(d, w, acc) ==
    IF (STM32Lx_FLASH_PECR_PELOCK \cup STM32Lx_FLASH_PECR_PRGLOCK) \cap d.pecr # {}
       \/ ~(STM32Lx_FLASH_PECR_PROG \subseteq d.pecr)
    THEN DevSetErr(d, STM32Lx_FLASH_SR_WRPERR)
    ELSE IF ~acc THEN DevSetErr(d, STM32Lx_FLASH_SR_PGAERR)
    ELSE IF STM32Lx_FLASH_PECR_ERASE \subseteq d.pecr
    THEN [d EXCEPT !.mem = [x \in Tracked |->
                               IF PageOf(x) = PageOf(w.a) THEN ERASED ELSE d.mem[x]]]
    ELSE IF WordOf(w.a) \in Tracked
    THEN IF d.mem[WordOf(w.a)] = ERASED
         THEN [d EXCEPT !.mem[WordOf(w.a)] = w.val]
         ELSE DevSetErr([d EXCEPT !.mem[WordOf(w.a)] = CORRUPT], STM32Lx_FLASH_SR_NOTZEROERR)
    ELSE d

\* a store to data EEPROM
DevEepromStore(d, w, acc) ==
    IF STM32Lx_FLASH_PECR_PELOCK \cap d.pecr # {}
    THEN DevSetErr(d, STM32Lx_FLASH_SR_WRPERR)
    ELSE IF ~acc THEN DevSetErr(d, STM32Lx_FLASH_SR_PGAERR)
    ELSE IF WordOf(w.a) \notin Tracked THEN d
    ELSE IF STM32Lx_FLASH_PECR_ERASE \subseteq d.pecr
    THEN [d EXCEPT !.mem[WordOf(w.a)] = ERASED]
    ELSE [d EXCEPT !.mem[WordOf(w.a)] = Merge(@, w.a, WidthOf(w.k), w.val)]

\* a store to a key register: the second key of a pair, directly after the
\* first, clears the lock bit
DevKey(d, w, acc, key1, key2, need, lock, stage) ==
    IF w.val = key1 THEN [d EXCEPT !.keyseq = stage]
    ELSE IF w.val = key2 /\ d.keyseq = stage /\ need \cap d.pecr = {} /\ acc
    THEN [d EXCEPT !.pecr = @ \ lock, !.keyseq = ""]
    ELSE [d EXCEPT !.keyseq = ""]

\* a store to PECR
DevPecr(d, w, acc) ==
    IF STM32Lx_FLASH_PECR_PELOCK \subseteq w.bits
    THEN [d EXCEPT !.pecr = LockBits, !.keyseq = ""]
    ELSE IF STM32Lx_FLASH_PECR_PELOCK \cap d.pecr # {} \/ ~acc THEN d
    ELSE IF STM32Lx_FLASH_PECR_OBL_LAUNCH \subseteq w.bits
    THEN [d EXCEPT !.rdprot = d.optw[2] % 256,
                   !.mem = IF d.rdprot # STM32Lx_FLASH_OPTR_RDPROT_0
                              /\ d.optw[2] % 256 = STM32Lx_FLASH_OPTR_RDPROT_0
                           THEN [x \in Tracked |-> ERASED] ELSE @]
    ELSE [d EXCEPT !.pecr = (@ \cap LockBits) \cup (w.bits \ LockBits)]

\* a store to the first word of the option window
DevOption(d, w, acc) ==
    IF STM32Lx_FLASH_PECR_OPTLOCK \cap d.pecr # {} THEN DevSetErr(d, STM32Lx_FLASH_SR_WRPERR)
    ELSE IF ~acc \/ d.rdprot = STM32Lx_FLASH_OPTR_RDPROT_2 THEN d
    ELSE [d EXCEPT !.optw = w.val]

\* the word stores a block write (target_mem32_write) amounts to
Expand(w) == [k \in 1 .. Len(w.data) |-> W("w32", w.a + 4 * (k - 1), {}, w.data[k], <<>>)]

\* the device after one transport write, and after a sequence of them (all
\* performed or refused as acc says)
RECURSIVE DevWrite(_, _, _), DevWrites(_, _, _)
DevWrite(d, w, acc) ==
    CASE w.k = "wbuf" -> DevWrites(d, Expand(w), acc)
      [] w.a = STM32Lx_FLASH_PECR(DevBase) -> DevPecr(d, w, acc)
      [] w.a = STM32Lx_FLASH_PEKEYR(DevBase) ->
            DevKey(d, w, acc, STM32Lx_FLASH_PEKEY1, STM32Lx_FLASH_PEKEY2, {},
                   STM32Lx_FLASH_PECR_PELOCK, "pe")
      [] w.a = STM32Lx_FLASH_PRGKEYR(DevBase) ->
            DevKey(d, w, acc, STM32Lx_FLASH_PRGKEY1, STM32Lx_FLASH_PRGKEY2,
                   STM32Lx_FLASH_PECR_PELOCK, STM32Lx_FLASH_PECR_PRGLOCK, "prg")
      [] w.a = STM32Lx_FLASH_OPTKEYR(DevBase) ->
            DevKey(d, w, acc, STM32Lx_FLASH_OPTKEY1, STM32Lx_FLASH_OPTKEY2,
                   STM32Lx_FLASH_PECR_PELOCK, STM32Lx_FLASH_PECR_OPTLOCK, "opt")
      [] w.a = STM32Lx_FLASH_SR(DevBase) -> [d EXCEPT !.srerr = @ \ w.bits]
      [] w.a = STM32Lx_FLASH_OPT_BASE -> DevOption(d, w, acc)
      [] IsFlashAddr(w.a) -> DevFlashStore(d, w, acc)
      [] IsEepromAddr(w.a) -> DevEepromStore(d, w, acc)
      [] OTHER -> d

DevWrites(d, ws, acc) ==
    IF ws = <<>> THEN d ELSE DevWrites(DevWrite(d, Head(ws), acc), Tail(ws), acc)

\* a device after power-up: locked, no error pending
DevInit(rdprot) ==
    [pecr |-> LockBits, keyseq |-> "", srerr |-> {}, raised |-> {},
     rdprot |-> rdprot, optw |-> <<65535 - rdprot, rdprot>>,
     mem |-> [x \in Tracked |-> ERASED]]

(* ------------------------------ sessions ------------------------------ *)
\* devices the model attaches: part_id is target->part_id as found before the
\* probe, partno the access port's part number, fsz the flash-size register
\* (KiB), chipid the LPC546xx chip-ID register, track the number of words of
\* each non-volatile memory whose content is followed
Chip(fam, part_id, partno, fsz, chipid, track) ==
    [fam |-> fam, part_id |-> part_id, partno |-> partno, fsz |-> fsz,
     chipid |-> chipid, track |-> track]
Chips ==
    { Chip("L0", ID_STM32L01x, ID_STM32L01x, 1, ZERO32, 0),
      Chip("L1", 0, 1046, 0, ZERO32, 0),
      Chip("LPC", 0, 0, 0, <<32661, 17925>>, 0) }

\* read-protection bytes a device may have been left with
RdprotVals == {STM32Lx_FLASH_OPTR_RDPROT_0, 0}

ArgNone == [fi |-> 0, addr |-> 0, len |-> 0, buf |-> <<>>, argc |-> 0, cmd |-> <<>>, val |-> ZERO32]
LocNone ==
    [offset |-> 0, full_erase |-> FALSE, unlocked |-> FALSE, phase |-> "", msgs |-> {},
     arm |-> "", mass |-> 0]
TmoNone == [set |-> FALSE, expired |-> FALSE, nprog |-> 0, polls |-> 0, perr |-> FALSE]

HistNone == [op |-> "", addr |-> 0, len |-> 0, ret |-> FALSE]

\* a session with a device c whose read-protection byte is one of rs
Start(cs, rs) ==
    /\ chip \in cs
    /\ tgt = [NoTarget EXCEPT !.part_id = chip.part_id]
    /\ dev \in {DevInit(r) : r \in IF chip.fam = "LPC" THEN {STM32Lx_FLASH_OPTR_RDPROT_0} ELSE rs}
    /\ hist = HistNone
    /\ terr = FALSE
    /\ pc = "idle"
    /\ op = ""
    /\ arg = ArgNone
    /\ loc = LocNone
    /\ ret = FALSE
    /\ wlog = <<>>
    /\ nacc = 0
    /\ tmo = TmoNone

Init == Start(Chips, RdprotVals)

\* a fresh frame for operation o: arguments, locals, where it stands, and what
\* it has returned, written and accessed so far
Frame(o, a, l, next, r, log, n) ==
    /\ pc = "idle"
    /\ op' = o
    /\ arg' = a
    /\ loc' = l
    /\ pc' = next
    /\ ret' = r
    /\ wlog' = log
    /\ nacc' = n
    /\ tmo' = TmoNone

\* entry to an operation that has not touched anything yet
Enter(o, a, l, next) ==
    /\ Frame(o, a, l, next, FALSE, <<>>, 0)
    /\ UNCHANGED <<chip, hist, tgt, dev, terr>>

\* the operation returns r
Leave(r) == pc' = "done" /\ ret' = r

\* the caller takes the result (and the transport's error flag) and is free
\* to issue the next operation (inside stm32lx_mass_erase, loc.mass > 0, the
\* caller is the loop of stm32lx_mass_erase)
Return ==
    /\ pc = "done"
    /\ loc.mass = 0
    /\ pc' = "idle"
    /\ op' = ""
    /\ arg' = ArgNone
    /\ loc' = LocNone
    /\ ret' = FALSE
    /\ wlog' = <<>>
    /\ nacc' = 0
    /\ tmo' = TmoNone
    /\ terr' = FALSE
    /\ hist' = IF chip.track > 0
               THEN [op |-> op, addr |-> arg.addr, len |-> arg.len, ret |-> ret]
               ELSE hist
    /\ dev' = [dev EXCEPT !.raised = {}]
    /\ UNCHANGED <<chip, tgt>>

\* the caller drops the target; the next probe builds it anew
Detach ==
    /\ pc = "idle"
    /\ tgt.driver # ""
    /\ tgt' = [NoTarget EXCEPT !.part_id = chip.part_id]
    /\ UNCHANGED <<chip, hist, dev, terr, pc, op, arg, loc, ret, wlog, nacc, tmo>>

\* communication with the device fails while the operation polls the device
TransportError ==
    /\ pc \in {"busy_wait", "busy_wait_status", "pme_poll"}
    /\ ~terr
    /\ terr' = TRUE
    /\ tmo' = [tmo EXCEPT !.perr = TRUE]
    /\ UNCHANGED <<chip, hist, tgt, dev, pc, op, arg, loc, ret, wlog, nacc>>

\* the deadline of the operation's polling passes
TimeoutExpires ==
    /\ pc \in {"busy_wait", "pme_poll"}
    /\ ~tmo.expired
    /\ tmo' = [tmo EXCEPT !.expired = TRUE]
    /\ UNCHANGED <<chip, hist, tgt, dev, terr, pc, op, arg, loc, ret, wlog, nacc>>

\* a faulty progress report that is never made
target_print_progress_silent(t) == t

\* target_print_progress: a side effect only, it never ends the operation
target_print_progress(t) == [t EXCEPT !.nprog = Min(@ + 1, MaxProgress)]

(* ------------------------------- probes ------------------------------- *)
stm32l0_regions(part_id, flash_size) ==
    (IF part_id = ID_STM32L07x
     THEN <<stm32l_add_flash(STM32Lx_FLASH_BANK_BASE, flash_size \div 2, STM32L0_FLASH_PAGE_SIZE),
            stm32l_add_flash(STM32Lx_FLASH_BANK_BASE + flash_size \div 2, flash_size \div 2,
                             STM32L0_FLASH_PAGE_SIZE)>>
     ELSE <<stm32l_add_flash(STM32Lx_FLASH_BANK_BASE, flash_size, STM32L0_FLASH_PAGE_SIZE)>>)
    \o <<stm32l_add_eeprom(STM32Lx_EEPROM_BASE, 6144)>>

\* the two writes of stm32l0_configure_dbgmcu (DBGMCU_CONFIG, DBGMCU_APB1FREEZE)
stm32l0_configure_dbgmcu ==
    <<WReg(1073829892, {0, 1, 2}), WReg(1073829896, {11, 12})>>

stm32l0_probe ==
    /\ tgt.driver = ""
    /\ IF tgt.part_id \in {ID_STM32L01x, ID_STM32L03x, ID_STM32L05x, ID_STM32L07x}
       THEN /\ Frame("stm32l0_probe", ArgNone, LocNone, "done", TRUE,
                     stm32l0_configure_dbgmcu, 3)
            /\ tgt' = [tgt EXCEPT !.driver = "STM32L0", !.attach = "stm32l0_attach",
                                  !.mass_erase = "stm32lx_mass_erase",
                                  !.commands = "stm32lx_cmd_list",
                                  !.ram = <<[start |-> 536870912, length |-> 20480]>>,
                                  !.flash = stm32l0_regions(tgt.part_id, chip.fsz * 1024)]
       ELSE /\ Frame("stm32l0_probe", ArgNone, LocNone, "done", FALSE, <<>>, 0)
            /\ tgt' = tgt
    /\ UNCHANGED <<chip, hist, dev, terr>>

\* stm32lx_prot_level on the read-protection byte of OPTR: 0xaa is level 0,
\* 0xcc level 2, anything else level 1
stm32lx_prot_level(rdprot_byte) ==
    IF rdprot_byte = STM32Lx_FLASH_OPTR_RDPROT_0 THEN 0
    ELSE IF rdprot_byte = STM32Lx_FLASH_OPTR_RDPROT_2 THEN 2
    ELSE 1

\* the read-protection decision of stm32l1_probe, on the OPTR value read
stm32l1_protected(rdprot_byte) == rdprot_byte # STM32Lx_FLASH_OPTR_RDPROT_0

stm32l1_probe ==
    /\ tgt.driver = ""
    /\ IF chip.partno \in {1046, 1065, 1063, 1078, 1079}
       THEN /\ Frame("stm32l1_probe", ArgNone, LocNone, "done", TRUE, <<>>, 1)
            /\ tgt' = [tgt EXCEPT
                  !.part_id = chip.partno,
                  !.ram = <<[start |-> 536870912, length |-> 81920]>>,
                  !.flash = <<stm32l_add_flash(STM32Lx_FLASH_BANK_BASE, 524288, 256)>>,
                  !.commands = "stm32lx_cmd_list",
                  !.driver = IF stm32l1_protected(dev.rdprot)
                             THEN "STM32L1 (protected)" ELSE "STM32L1",
                  !.attach = IF stm32l1_protected(dev.rdprot)
                             THEN "stm32lx_protected_attach" ELSE @,
                  !.mass_erase = IF stm32l1_protected(dev.rdprot)
                                 THEN "stm32lx_protected_mass_erase" ELSE "stm32lx_mass_erase"]
       ELSE /\ Frame("stm32l1_probe", ArgNone, LocNone, "done", FALSE, <<>>, 0)
            /\ tgt' = tgt
    /\ UNCHANGED <<chip, hist, dev, terr>>

\* a faulty size table that gives every known ID the larger flash
lpc546xx_flash_size_all512(chipid) ==
    IF chipid[1] \in {32661, 65525} /\ chipid[2] \in {17925, 17926, 17927, 17928, 17942, 17944, 17960}
    THEN 524288
    ELSE 0

\* flash size by chip ID; 0 for an ID lpc546xx_probe does not know
lpc546xx_flash_size(chipid) ==
    IF chipid \in {<<32661, 17925>>, <<32661, 17926>>, <<32661, 17927>>, <<32661, 17942>>}
    THEN 262144
    ELSE IF chipid \in {<<65525, 17925>>, <<65525, 17926>>, <<65525, 17927>>, <<65525, 17928>>,
                        <<65525, 17942>>, <<65525, 17944>>, <<65525, 17960>>}
    THEN 524288
    ELSE 0

\* the region lpc546xx_add_flash registers
lpc546xx_add_flash(addr, len, erasesize) ==
    [start |-> addr, length |-> len, blocksize |-> erasesize,
     erase |-> "lpc546xx_flash_erase", write |-> "lpc_flash_write_magic_vect",
     writesize |-> 4096]

lpc546xx_probe ==
    /\ tgt.driver = ""
    /\ IF lpc546xx_flash_size(chip.chipid) # 0
       THEN /\ Frame("lpc546xx_probe", ArgNone, LocNone, "done", TRUE, <<>>, 1)
            /\ tgt' = [tgt EXCEPT
                  !.driver = "LPC546xx",
                  !.mass_erase = "lpc546xx_mass_erase",
                  !.flash = <<lpc546xx_add_flash(0, lpc546xx_flash_size(chip.chipid), 32768)>>,
                  !.ram = <<[start |-> 536870912, length |-> 163840]>>,
                  !.commands = "lpc546xx_cmd_list"]
       ELSE /\ Frame("lpc546xx_probe", ArgNone, LocNone, "done", FALSE, <<>>, 1)
            /\ tgt' = tgt
    /\ UNCHANGED <<chip, hist, dev, terr>>

(* ------------------ register-sequence driver: primitives -------------- *)
\* the register base the driver works with
fb == stm32lx_flash_base(tgt.part_id)

\* the operation's region
Region == tgt.flash[arg.fi]

stm32lx_nvm_lock(flash_base) ==
    WReg(STM32Lx_FLASH_PECR(flash_base), STM32Lx_FLASH_PECR_PELOCK)

\* a faulty unlock that presents the two PE keys in the wrong order
stm32lx_nvm_prog_data_unlock_keys_swapped(flash_base) ==
    << WReg(STM32Lx_FLASH_PECR(flash_base), STM32Lx_FLASH_PECR_PELOCK),
       WVal(STM32Lx_FLASH_PEKEYR(flash_base), STM32Lx_FLASH_PEKEY2),
       WVal(STM32Lx_FLASH_PEKEYR(flash_base), STM32Lx_FLASH_PEKEY1),
       WVal(STM32Lx_FLASH_PRGKEYR(flash_base), STM32Lx_FLASH_PRGKEY1),
       WVal(STM32Lx_FLASH_PRGKEYR(flash_base), STM32Lx_FLASH_PRGKEY2) >>

\* the writes of stm32lx_nvm_prog_data_unlock, in order
stm32lx_nvm_prog_data_unlock(flash_base) ==
    << WReg(STM32Lx_FLASH_PECR(flash_base), STM32Lx_FLASH_PECR_PELOCK),
       WVal(STM32Lx_FLASH_PEKEYR(flash_base), STM32Lx_FLASH_PEKEY1),
       WVal(STM32Lx_FLASH_PEKEYR(flash_base), STM32Lx_FLASH_PEKEY2),
       WVal(STM32Lx_FLASH_PRGKEYR(flash_base), STM32Lx_FLASH_PRGKEY1),
       WVal(STM32Lx_FLASH_PRGKEYR(flash_base), STM32Lx_FLASH_PRGKEY2) >>

\* the writes of stm32lx_nvm_opt_unlock, in order
stm32lx_nvm_opt_unlock(flash_base) ==
    << WReg(STM32Lx_FLASH_PECR(flash_base), STM32Lx_FLASH_PECR_PELOCK),
       WVal(STM32Lx_FLASH_PEKEYR(flash_base), STM32Lx_FLASH_PEKEY1),
       WVal(STM32Lx_FLASH_PEKEYR(flash_base), STM32Lx_FLASH_PEKEY2),
       WVal(STM32Lx_FLASH_OPTKEYR(flash_base), STM32Lx_FLASH_OPTKEY1),
       WVal(STM32Lx_FLASH_OPTKEYR(flash_base), STM32Lx_FLASH_OPTKEY2) >>

\* operations that unlock for program/data, and for the option bytes
ProgDataOps ==
    {"stm32lx_flash_erase", "stm32lx_flash_write", "stm32lx_eeprom_erase",
     "stm32lx_eeprom_write", "stm32lx_cmd_eeprom"}
OptOps == {"stm32lx_protected_mass_erase", "stm32lx_cmd_option"}

\* where each operation goes on after a successful unlock
AfterUnlock(o) ==
    CASE o = "stm32lx_flash_erase" -> "fe_arm"
      [] o = "stm32lx_flash_write" -> "busy_wait"
      [] o = "stm32lx_eeprom_erase" -> "ee_arm"
      [] o = "stm32lx_eeprom_write" -> "ew_arm"
      [] o = "stm32lx_cmd_eeprom" -> "cmd_eeprom"
      [] o = "stm32lx_protected_mass_erase" -> "pme_wipe"
      [] o = "stm32lx_cmd_option" -> "cmd_option"

\* what each operation returns when the unlock failed: the flash operations
\* return false, the two command handlers print a message and return true
UnlockFailed(o) == o \in {"stm32lx_cmd_option", "stm32lx_cmd_eeprom"}

\* the unlock: the five writes, then the read of PECR and the test of lockbit
Unlock(ws, lockbit) ==
    \E pe_acc \in BOOLEAN, key_acc \in BOOLEAN :
        LET d == DevWrites(DevWrites(dev, SubSeq(ws, 1, 3), pe_acc),
                           SubSeq(ws, 4, Len(ws)), key_acc)
            ok == (d.pecr \cap lockbit) = {}
        IN  /\ dev' = d
            /\ wlog' = wlog \o ws
            /\ nacc' = nacc + Len(ws) + 1
            /\ loc' = [loc EXCEPT !.unlocked = ok]
            /\ IF ok THEN pc' = AfterUnlock(op) /\ ret' = ret
                     ELSE Leave(UnlockFailed(op))
            /\ UNCHANGED <<chip, hist, tgt, terr, op, arg, tmo>>

nvm_prog_data_unlock ==
    /\ pc = "unlock"
    /\ op \in ProgDataOps
    /\ Unlock(stm32lx_nvm_prog_data_unlock(fb), STM32Lx_FLASH_PECR_PRGLOCK)

nvm_opt_unlock ==
    /\ pc = "unlock"
    /\ op \in OptOps
    /\ Unlock(stm32lx_nvm_opt_unlock(fb), STM32Lx_FLASH_PECR_OPTLOCK)

\* where the caller of stm32lx_nvm_busy_wait goes on, given its result r
AfterWait(r) ==
    CASE op = "stm32lx_flash_write" /\ loc.phase = "pre" ->
            IF r THEN [pc |-> "fw_prog", ret |-> ret] ELSE [pc |-> "done", ret |-> FALSE]
      [] op = "stm32lx_cmd_option" -> [pc |-> "opt_report", ret |-> ret]
      [] op = "stm32lx_cmd_eeprom" -> [pc |-> "cmd_done", ret |-> ret]
      [] OTHER -> [pc |-> "done", ret |-> r]

\* stm32lx_nvm_busy_wait, one evaluation of the loop condition (a read of SR)
\* and, if BSY is set, one pass through the loop body
nvm_busy_wait_loop ==
    /\ pc = "busy_wait"
    /\ \E bsy \in BOOLEAN :
          IF bsy
          THEN /\ tmo.polls < MaxPolls
               /\ IF terr
                  THEN /\ terr' = FALSE
                       /\ pc' = AfterWait(FALSE).pc
                       /\ ret' = AfterWait(FALSE).ret
                       /\ tmo' = [tmo EXCEPT !.polls = @ + 1]
                  ELSE /\ tmo' = IF loc.full_erase
                                 THEN [target_print_progress(tmo) EXCEPT !.polls = @ + 1]
                                 ELSE [tmo EXCEPT !.polls = @ + 1]
                       /\ UNCHANGED <<terr, pc, ret>>
          ELSE /\ pc' = "busy_wait_status"
               /\ UNCHANGED <<terr, ret, tmo>>
    /\ nacc' = nacc + 1
    /\ UNCHANGED <<chip, hist, tgt, dev, op, arg, loc, wlog>>

\* a faulty verdict that looks at the status bits only
nvm_busy_wait_result_status_only(status, error) ==
    (status \cap STM32Lx_FLASH_SR_ERR_MASK) = {}

\* the result of stm32lx_nvm_busy_wait from the final status read
nvm_busy_wait_result(status, error) ==
    ~error /\ (status \cap STM32Lx_FLASH_SR_ERR_MASK) = {}

\* stm32lx_nvm_busy_wait after the loop: the status read and the verdict
nvm_busy_wait_status ==
    /\ pc = "busy_wait_status"
    /\ LET r == nvm_busy_wait_result(dev.srerr, terr)
       IN  /\ pc' = AfterWait(r).pc
           /\ ret' = AfterWait(r).ret
    /\ terr' = FALSE
    /\ nacc' = nacc + 1
    /\ tmo' = [tmo EXCEPT !.polls = 0]
    /\ UNCHANGED <<chip, hist, tgt, dev, op, arg, loc, wlog>>

(* --------------- register-sequence driver: region operations ---------- *)
\* (addr, len) the model passes to a region's erase: one byte and a block and
\* a byte from the region's start, two words from a misaligned address, one
\* byte at the first address past the region's end, and the whole region
EraseArgs(f) ==
    {<<f.start, 1>>, <<f.start, f.blocksize + 1>>, <<f.start + 2, 8>>,
     <<f.start + f.length, 1>>} \cup
    (IF f.length <= MaxEraseLen THEN {<<f.start, f.length>>} ELSE {})

\* source buffers, and (dest, buf) the model passes to a region's write: every
\* buffer to the region's start, one to the first address past its end
Buffers == UNION {[1 .. n -> WordVals] : n \in 1 .. MaxWords}
WriteArgs(f) ==
    {<<f.start, b>> : b \in Buffers} \cup {<<f.start + f.length, <<<<0, 1>>>> >>}

\* whether the operation-select bits of mode are set in the control register
\* of device d: what a read back after the operation-select write would show
Latched(d, mode) == IF mode \subseteq d.pecr THEN "latched" ELSE "refused"

\* a store of one 32-bit word / of a register value, performed or not as acc says
Store(w, acc) ==
    /\ dev' = DevWrite(dev, w, acc)
    /\ wlog' = Append(wlog, w)

stm32lx_flash_erase(fi, addr, len) ==
    /\ tgt.flash[fi].erase = "stm32lx_flash_erase"
    /\ Enter("stm32lx_flash_erase",
             [ArgNone EXCEPT !.fi = fi, !.addr = addr, !.len = len],
             [LocNone EXCEPT !.full_erase = (addr = tgt.flash[fi].start
                                             /\ len = tgt.flash[fi].length)],
             "unlock")

\* the operation-select write, the read back and the check; then the status clear
flash_erase_arm ==
    /\ pc = "fe_arm"
    /\ \E acc \in BOOLEAN :
         LET mode == STM32Lx_FLASH_PECR_ERASE \cup STM32Lx_FLASH_PECR_PROG
             w == WReg(STM32Lx_FLASH_PECR(fb), mode)
             d == DevWrite(dev, w, acc)
             pecr == d.pecr \cap (STM32Lx_FLASH_PECR_PROG \cup STM32Lx_FLASH_PECR_ERASE)
             clr == WReg(STM32Lx_FLASH_SR(fb), STM32Lx_FLASH_SR_ERR_MASK)
         IN  IF pecr # mode
             THEN /\ dev' = d
                  /\ wlog' = Append(wlog, w)
                  /\ nacc' = nacc + 2
                  /\ Leave(FALSE)
                  /\ loc' = [loc EXCEPT !.arm = Latched(d, mode)]
                  /\ tmo' = tmo
             ELSE /\ dev' = DevWrite(d, clr, TRUE)
                  /\ wlog' = wlog \o <<w, clr>>
                  /\ nacc' = nacc + 3
                  /\ pc' = "fe_trigger"
                  /\ loc' = [loc EXCEPT !.offset = 0, !.arm = Latched(d, mode)]
                  /\ tmo' = [tmo EXCEPT !.set = TRUE]
                  /\ ret' = ret
    /\ UNCHANGED <<chip, hist, tgt, terr, op, arg>>

\* a faulty trigger loop that advances two blocks per pass
flash_erase_trigger_stride2 ==
    /\ pc = "fe_trigger"
    /\ loc.offset < arg.len
    /\ \E acc \in BOOLEAN : Store(WVal(arg.addr + loc.offset, ZERO32), acc)
    /\ nacc' = nacc + 1
    /\ tmo' = IF loc.full_erase THEN target_print_progress(tmo) ELSE tmo
    /\ loc' = [loc EXCEPT !.offset = @ + 2 * Region.blocksize]
    /\ UNCHANGED <<chip, hist, tgt, terr, pc, op, arg, ret>>

\* one pass of the trigger loop
flash_erase_trigger ==
    /\ pc = "fe_trigger"
    /\ loc.offset < arg.len
    /\ \E acc \in BOOLEAN : Store(WVal(arg.addr + loc.offset, ZERO32), acc)
    /\ nacc' = nacc + 1
    /\ tmo' = IF loc.full_erase THEN target_print_progress(tmo) ELSE tmo
    /\ loc' = [loc EXCEPT !.offset = @ + Region.blocksize]
    /\ UNCHANGED <<chip, hist, tgt, terr, pc, op, arg, ret>>

\* after the loop: lock, then wait
flash_erase_lock ==
    /\ pc = "fe_trigger"
    /\ ~(loc.offset < arg.len)
    /\ Store(stm32lx_nvm_lock(fb), TRUE)
    /\ nacc' = nacc + 1
    /\ pc' = "busy_wait"
    /\ UNCHANGED <<chip, hist, tgt, terr, op, arg, loc, ret, tmo>>

\* stm32lx_mass_erase: stm32lx_flash_erase on every region of the list in
\* turn, whole region each time; loc.mass is the place in the list
stm32lx_mass_erase ==
    /\ tgt.mass_erase = "stm32lx_mass_erase"
    /\ Enter("stm32lx_flash_erase",
             [ArgNone EXCEPT !.fi = 1, !.addr = tgt.flash[1].start,
                             !.len = tgt.flash[1].length],
             [LocNone EXCEPT !.full_erase = TRUE, !.mass = 1],
             "unlock")

\* the loop of stm32lx_mass_erase once a region's erase has returned: false
\* ends it with false, otherwise the next region, and true after the last
mass_erase_next ==
    /\ pc = "done"
    /\ loc.mass > 0
    /\ IF ret /\ loc.mass < Len(tgt.flash)
       THEN LET f == tgt.flash[loc.mass + 1]
            IN  /\ arg' = [arg EXCEPT !.fi = loc.mass + 1, !.addr = f.start,
                                      !.len = f.length]
                /\ loc' = [LocNone EXCEPT !.full_erase = TRUE, !.mass = loc.mass + 1]
                /\ pc' = "unlock"
                /\ ret' = FALSE
                /\ wlog' = <<>>
                /\ nacc' = 0
                /\ tmo' = TmoNone
                /\ op' = op
       ELSE /\ op' = "stm32lx_mass_erase"
            /\ loc' = [loc EXCEPT !.mass = 0]
            /\ UNCHANGED <<pc, arg, ret, wlog, nacc, tmo>>
    /\ UNCHANGED <<chip, hist, tgt, dev, terr>>

stm32lx_flash_write(fi, dest, buf) ==
    /\ tgt.flash[fi].write = "stm32lx_flash_write"
    /\ Enter("stm32lx_flash_write",
             [ArgNone EXCEPT !.fi = fi, !.addr = dest, !.buf = buf, !.len = 4 * Len(buf)],
             [LocNone EXCEPT !.phase = "pre"],
             "unlock")

\* after the first wait: select half-page programming, send the block, lock, wait
flash_write_prog ==
    /\ pc = "fw_prog"
    /\ \E acc \in BOOLEAN :
         LET ws == << WReg(STM32Lx_FLASH_PECR(fb),
                           STM32Lx_FLASH_PECR_PROG \cup STM32Lx_FLASH_PECR_FPRG),
                      W("wbuf", arg.addr, {}, ZERO32, arg.buf),
                      stm32lx_nvm_lock(fb) >>
         IN  /\ dev' = DevWrite(DevWrites(dev, SubSeq(ws, 1, 2), acc), ws[3], TRUE)
             /\ wlog' = wlog \o ws
             /\ nacc' = nacc + 3
             /\ loc' = [loc EXCEPT !.phase = "final",
                                   !.arm = Latched(DevWrite(dev, ws[1], acc), ws[1].bits)]
    /\ pc' = "busy_wait"
    /\ UNCHANGED <<chip, hist, tgt, terr, op, arg, ret, tmo>>

stm32lx_eeprom_erase(fi, addr, len) ==
    /\ tgt.flash[fi].erase = "stm32lx_eeprom_erase"
    /\ Enter("stm32lx_eeprom_erase",
             [ArgNone EXCEPT !.fi = fi, !.addr = addr, !.len = len], LocNone, "unlock")

eeprom_erase_arm ==
    /\ pc = "ee_arm"
    /\ \E acc \in BOOLEAN :
         LET mode == STM32Lx_FLASH_PECR_ERASE \cup STM32Lx_FLASH_PECR_DATA
             w == WReg(STM32Lx_FLASH_PECR(fb), mode)
             d == DevWrite(dev, w, acc)
             pecr == d.pecr \cap (STM32Lx_FLASH_PECR_ERASE \cup STM32Lx_FLASH_PECR_DATA)
         IN  /\ dev' = d
             /\ wlog' = Append(wlog, w)
             /\ nacc' = nacc + 2
             /\ IF pecr # mode
                THEN Leave(FALSE) /\ loc' = [loc EXCEPT !.arm = Latched(d, mode)]
                ELSE /\ pc' = "ee_trigger"
                     /\ loc' = [loc EXCEPT !.offset = 0, !.arm = Latched(d, mode)]
                     /\ ret' = ret
    /\ UNCHANGED <<chip, hist, tgt, terr, op, arg, tmo>>

\* a faulty trigger loop that starts from the address as given
eeprom_erase_trigger_unmasked ==
    /\ pc = "ee_trigger"
    /\ loc.offset < arg.len
    /\ \E acc \in BOOLEAN : Store(WVal(arg.addr + loc.offset, ZERO32), acc)
    /\ nacc' = nacc + 1
    /\ loc' = [loc EXCEPT !.offset = @ + Region.blocksize]
    /\ UNCHANGED <<chip, hist, tgt, terr, pc, op, arg, ret, tmo>>

\* one pass of the trigger loop, from the address masked to a word boundary
eeprom_erase_trigger ==
    /\ pc = "ee_trigger"
    /\ loc.offset < arg.len
    /\ \E acc \in BOOLEAN : Store(WVal(WordOf(arg.addr) + loc.offset, ZERO32), acc)
    /\ nacc' = nacc + 1
    /\ loc' = [loc EXCEPT !.offset = @ + Region.blocksize]
    /\ UNCHANGED <<chip, hist, tgt, terr, pc, op, arg, ret, tmo>>

eeprom_erase_lock ==
    /\ pc = "ee_trigger"
    /\ ~(loc.offset < arg.len)
    /\ Store(stm32lx_nvm_lock(fb), TRUE)
    /\ nacc' = nacc + 1
    /\ pc' = "busy_wait"
    /\ UNCHANGED <<chip, hist, tgt, terr, op, arg, loc, ret, tmo>>

stm32lx_eeprom_write(fi, dest, buf) ==
    /\ tgt.flash[fi].write = "stm32lx_eeprom_write"
    /\ Enter("stm32lx_eeprom_write",
             [ArgNone EXCEPT !.fi = fi, !.addr = dest, !.buf = buf, !.len = 4 * Len(buf)],
             LocNone, "unlock")

eeprom_write_arm ==
    /\ pc = "ew_arm"
    /\ \E acc \in BOOLEAN :
         LET w == WReg(STM32Lx_FLASH_PECR(fb),
                       IF stm32lx_is_stm32l1(tgt.part_id) THEN {} ELSE STM32Lx_FLASH_PECR_DATA)
         IN  /\ Store(w, acc)
             /\ loc' = [loc EXCEPT !.offset = 0,
                                   !.arm = Latched(DevWrite(dev, w, acc), w.bits)]
    /\ nacc' = nacc + 1
    /\ pc' = "ew_data"
    /\ UNCHANGED <<chip, hist, tgt, terr, op, arg, ret, tmo>>

\* data[offset] of the source buffer taken as an array of 32-bit words; beyond
\* the end of the buffer the read yields g
eeprom_write_data(buf, offset, g) ==
    IF offset < Len(buf) THEN buf[offset + 1] ELSE g

\* one pass of the data loop: the word write, which the device performs or
\* refuses; the loop is abandoned if the transport fails
eeprom_write_word ==
    /\ pc = "ew_data"
    /\ loc.offset < arg.len
    /\ \E g \in Garbage, failed \in BOOLEAN :
         LET w == WVal(arg.addr + loc.offset, eeprom_write_data(arg.buf, loc.offset, g))
         IN  IF failed
             THEN /\ wlog' = Append(wlog, w)
                  /\ terr' = TRUE
                  /\ Leave(FALSE)
                  /\ UNCHANGED <<dev, loc>>
             ELSE /\ \E acc \in BOOLEAN : Store(w, acc)
                  /\ loc' = [loc EXCEPT !.offset = @ + 4]
                  /\ UNCHANGED <<terr, pc, ret>>
    /\ nacc' = nacc + 1
    /\ UNCHANGED <<chip, hist, tgt, op, arg, tmo>>

eeprom_write_lock ==
    /\ pc = "ew_data"
    /\ ~(loc.offset < arg.len)
    /\ Store(stm32lx_nvm_lock(fb), TRUE)
    /\ nacc' = nacc + 1
    /\ pc' = "busy_wait"
    /\ UNCHANGED <<chip, hist, tgt, terr, op, arg, loc, ret, tmo>>

(* ------------- register-sequence driver: protected devices ------------ *)
\* a faulty wipe that sends the two patterns in the other order
protected_mass_erase_wipe_swapped(flash_base) ==
    << WVal(STM32Lx_FLASH_OPT_BASE, OPT_WIPE_2),
       WReg(STM32Lx_FLASH_PECR(flash_base), STM32Lx_FLASH_PECR_OBL_LAUNCH),
       WVal(STM32Lx_FLASH_OPT_BASE, OPT_WIPE_1),
       WReg(STM32Lx_FLASH_PECR(flash_base), STM32Lx_FLASH_PECR_OBL_LAUNCH) >>

\* the option-wipe writes of stm32lx_protected_mass_erase, in order
protected_mass_erase_wipe(flash_base) ==
    << WVal(STM32Lx_FLASH_OPT_BASE, OPT_WIPE_1),
       WReg(STM32Lx_FLASH_PECR(flash_base), STM32Lx_FLASH_PECR_OBL_LAUNCH),
       WVal(STM32Lx_FLASH_OPT_BASE, OPT_WIPE_2),
       WReg(STM32Lx_FLASH_PECR(flash_base), STM32Lx_FLASH_PECR_OBL_LAUNCH) >>

stm32lx_protected_mass_erase ==
    /\ tgt.mass_erase = "stm32lx_protected_mass_erase"
    /\ Enter("stm32lx_protected_mass_erase", ArgNone, LocNone, "unlock")

protected_mass_erase_wipe_step ==
    /\ pc = "pme_wipe"
    /\ \E acc1 \in BOOLEAN, acc2 \in BOOLEAN :
         LET ws == protected_mass_erase_wipe(fb)
         IN  /\ dev' = DevWrites(DevWrites(dev, SubSeq(ws, 1, 2), acc1), SubSeq(ws, 3, 4), acc2)
             /\ wlog' = wlog \o ws
             /\ nacc' = nacc + Len(ws)
    /\ tmo' = [tmo EXCEPT !.set = TRUE]
    /\ pc' = "pme_poll"
    /\ UNCHANGED <<chip, hist, tgt, terr, op, arg, loc, ret>>

\* a faulty protected attach that leaves itself installed
stm32lx_protected_attach_sticky ==
    /\ tgt.attach = "stm32lx_protected_attach"
    /\ Frame("stm32lx_protected_attach", ArgNone,
             [LocNone EXCEPT !.msgs = {"Attached in protected mode"}], "done", TRUE, <<>>, 0)
    /\ UNCHANGED <<chip, hist, tgt, dev, terr>>

\* target->attach of a target probed as protected: the message, the handler
\* replaced by the plain attach, true; the device is not accessed
stm32lx_protected_attach ==
    /\ tgt.attach = "stm32lx_protected_attach"
    /\ Frame("stm32lx_protected_attach", ArgNone,
             [LocNone EXCEPT !.msgs = {"Attached in protected mode"}], "done", TRUE, <<>>, 0)
    /\ tgt' = [tgt EXCEPT !.attach = "cortexm_attach"]
    /\ UNCHANGED <<chip, hist, dev, terr>>

\* target->attach once it is the plain attach: a call out of this driver,
\* whose result is the environment's and whose accesses are not followed
cortexm_attach ==
    /\ tgt.driver # ""
    /\ tgt.attach = "cortexm_attach"
    /\ \E attached \in BOOLEAN :
          Frame("cortexm_attach", ArgNone, LocNone, "done", attached, <<>>, 0)
    /\ UNCHANGED <<chip, hist, tgt, dev, terr>>

\* what stm32lx_protected_mass_erase returns once its poll loop has ended
protected_mass_erase_result(error) == TRUE

\* one evaluation of the poll loop's condition: another pass, or lock and return
protected_mass_erase_poll ==
    /\ pc = "pme_poll"
    /\ \E bsy \in BOOLEAN :
          IF bsy
          THEN /\ tmo.polls < MaxPolls
               /\ tmo' = [target_print_progress(tmo) EXCEPT !.polls = @ + 1]
               /\ nacc' = nacc + 1
               /\ UNCHANGED <<dev, wlog, pc, ret>>
          ELSE /\ Store(stm32lx_nvm_lock(fb), TRUE)
               /\ nacc' = nacc + 2
               /\ Leave(protected_mass_erase_result(terr))
               /\ tmo' = tmo
    /\ UNCHANGED <<chip, hist, tgt, terr, op, arg, loc>>

(* ------------- register-sequence driver: command handlers ------------- *)
\* strncasecmp(arg, keyword, strlen(arg)) == 0: arg is a prefix of keyword
Matches(a, keyword) ==
    Len(a) <= Len(keyword) /\ \A i \in 1 .. Len(a) : a[i] = keyword[i]

Keyword ==
    [obl_launch |-> <<"o", "b", "l", "_", "l", "a", "u", "n", "c", "h">>,
     write |-> <<"w", "r", "i", "t", "e">>,
     raw |-> <<"r", "a", "w">>,
     byte |-> <<"b", "y", "t", "e">>,
     halfword |-> <<"h", "a", "l", "f", "w", "o", "r", "d">>,
     word |-> <<"w", "o", "r", "d">>]

\* a faulty encoding that passes the value through
option_encode_plain(val) == val

\* the option word the non-raw path writes for value val
option_encode(val) == <<65535 - val[2], val[2]>>

\* the report's verdict on an option word: its low half compared with the
\* complement of its high half
option_report(val) == IF val[2] = 65535 - val[1] THEN "OK" ELSE "ERR"

\* the address check of stm32lx_cmd_option
option_addr_ok(addr, opt_size) ==
    addr >= STM32Lx_FLASH_OPT_BASE /\ addr < STM32Lx_FLASH_OPT_BASE + opt_size /\ addr % 4 = 0

\* the writes of stm32lx_option_write
stm32lx_option_write(flash_base, address, value) ==
    << WReg(STM32Lx_FLASH_PECR(flash_base), STM32Lx_FLASH_PECR_FIX), WVal(address, value) >>

\* (argc, argv[1], addr, value) the model passes to the option command
OptionArgs ==
    { <<1, <<>>, 0, ZERO32>>,
      <<2, Keyword.obl_launch, 0, ZERO32>>,
      <<2, <<"s", "h", "o", "w">>, 0, ZERO32>>,
      <<4, Keyword.write, STM32Lx_FLASH_OPT_BASE, <<4660, 170>> >>,
      <<4, Keyword.raw, STM32Lx_FLASH_OPT_BASE, <<4660, 170>> >>,
      <<4, Keyword.write, STM32Lx_FLASH_OPT_BASE + 2, <<0, 170>> >>,
      <<4, Keyword.write, STM32Lx_FLASH_OPT_BASE + 64, <<0, 170>> >>,
      <<4, Keyword.raw, STM32Lx_FLASH_OPT_BASE + STM32L0_FLASH_OPT_SIZE, <<0, 170>> >>,
      <<4, Keyword.raw, STM32Lx_FLASH_OPT_BASE - 4, <<0, 170>> >>,
      <<4, <<"x">>, STM32Lx_FLASH_OPT_BASE, <<0, 170>> >> }

stm32lx_cmd_option(argc, cmd, addr, val) ==
    /\ tgt.driver \in {"STM32L0", "STM32L1", "STM32L1 (protected)"}
    /\ Enter("stm32lx_cmd_option",
             [ArgNone EXCEPT !.argc = argc, !.cmd = cmd, !.addr = addr, !.val = val],
             LocNone, "unlock")

\* the usage text, then the lock and the return
cmd_usage ==
    /\ Store(stm32lx_nvm_lock(fb), TRUE)
    /\ nacc' = nacc + 1
    /\ loc' = [loc EXCEPT !.msgs = @ \cup {"usage"}]
    /\ Leave(TRUE)

\* stm32lx_cmd_option after the unlock, up to the option write's wait
cmd_option_exec ==
    /\ pc = "cmd_option"
    /\ LET raw_write == Matches(arg.cmd, Keyword.raw)
           val == IF raw_write THEN arg.val ELSE option_encode(arg.val)
       IN  IF arg.argc < 2 THEN cmd_usage /\ tmo' = tmo
           ELSE IF arg.argc = 2 /\ Matches(arg.cmd, Keyword.obl_launch)
           THEN /\ \E acc \in BOOLEAN :
                      Store(WReg(STM32Lx_FLASH_PECR(fb), STM32Lx_FLASH_PECR_OBL_LAUNCH), acc)
                /\ nacc' = nacc + 1
                /\ pc' = "opt_report"
                /\ UNCHANGED <<loc, ret, tmo>>
           ELSE IF arg.argc = 4
           THEN IF ~raw_write /\ ~Matches(arg.cmd, Keyword.write) THEN cmd_usage /\ tmo' = tmo
                ELSE IF option_addr_ok(arg.addr, stm32lx_nvm_option_size(tgt.part_id))
                THEN /\ \E acc \in BOOLEAN :
                          LET ws == stm32lx_option_write(fb, arg.addr, val)
                          IN  /\ dev' = DevWrites(dev, ws, acc)
                              /\ wlog' = wlog \o ws
                              /\ loc' = [loc EXCEPT !.arm =
                                            Latched(DevWrite(dev, ws[1], acc), ws[1].bits)]
                     /\ nacc' = nacc + 2
                     /\ pc' = "busy_wait"
                     /\ UNCHANGED <<ret, tmo>>
                ELSE cmd_usage /\ tmo' = tmo
           ELSE /\ pc' = "opt_report"
                /\ UNCHANGED <<dev, wlog, nacc, loc, ret, tmo>>
    /\ UNCHANGED <<chip, hist, tgt, terr, op, arg>>

\* the report of the option words and of OPTR, then the lock and the return
cmd_option_report ==
    /\ pc = "opt_report"
    /\ Store(stm32lx_nvm_lock(fb), TRUE)
    /\ nacc' = nacc + stm32lx_nvm_option_size(tgt.part_id) \div 4 + 2
    /\ loc' = [loc EXCEPT !.msgs = @ \cup {option_report(dev.optw)}]
    /\ Leave(TRUE)
    /\ UNCHANGED <<chip, hist, tgt, terr, op, arg, tmo>>

\* the range check of stm32lx_cmd_eeprom
eeprom_addr_ok(addr, part_id) ==
    ~(addr < STM32Lx_FLASH_EEPROM_BASE
      \/ addr >= STM32Lx_FLASH_EEPROM_BASE + stm32lx_nvm_eeprom_size(part_id))

\* block size selected by argv[1] (0: no keyword matches)
eeprom_block_size(cmd) ==
    IF Matches(cmd, Keyword.byte) THEN 1
    ELSE IF Matches(cmd, Keyword.halfword) THEN 2
    ELSE IF Matches(cmd, Keyword.word) THEN 4
    ELSE 0

\* a faulty alignment check that accepts every address
eeprom_aligned_unchecked(addr, block_size) == TRUE

\* the alignment check for the selected block size
eeprom_aligned(addr, block_size) ==
    ~((block_size = 2 /\ addr % 2 # 0) \/ (block_size = 4 /\ addr % 4 # 0))

\* the value after masking to the selected block size
eeprom_mask(val, block_size) ==
    IF block_size = 1 THEN <<0, val[2] % 256>>
    ELSE IF block_size = 2 THEN <<0, val[2]>>
    ELSE val

\* the writes of stm32lx_eeprom_write_one
stm32lx_eeprom_write_one(flash_base, is_stm32l1, address, block_size, value) ==
    << WReg(STM32Lx_FLASH_SR(flash_base), STM32Lx_FLASH_SR_ERR_MASK),
       WReg(STM32Lx_FLASH_PECR(flash_base),
            (IF is_stm32l1 THEN {} ELSE STM32Lx_FLASH_PECR_DATA) \cup STM32Lx_FLASH_PECR_FIX),
       W(IF block_size = 4 THEN "w32" ELSE IF block_size = 2 THEN "w16" ELSE "w8",
         address, {}, value, <<>>) >>

\* (argc, argv[1], addr, value) the model passes to the EEPROM command
EepromArgs ==
    { <<1, <<>>, 0, ZERO32>>,
      <<4, Keyword.byte, STM32Lx_FLASH_EEPROM_BASE + 1, <<1, 515>> >>,
      <<4, Keyword.halfword, STM32Lx_FLASH_EEPROM_BASE + 2, <<1, 515>> >>,
      <<4, Keyword.halfword, STM32Lx_FLASH_EEPROM_BASE + 1, <<1, 515>> >>,
      <<4, Keyword.word, STM32Lx_FLASH_EEPROM_BASE + 4, <<1, 515>> >>,
      <<4, Keyword.word, STM32Lx_FLASH_EEPROM_BASE + 2, <<1, 515>> >>,
      <<4, Keyword.word, STM32Lx_FLASH_EEPROM_BASE + STM32L1_FLASH_EEPROM_SIZE, <<1, 515>> >>,
      <<4, Keyword.byte, STM32Lx_FLASH_EEPROM_BASE + STM32L0_FLASH_EEPROM_CAT1_SIZE, <<1, 515>> >>,
      <<4, Keyword.word, STM32Lx_FLASH_EEPROM_BASE - 4, <<1, 515>> >>,
      <<4, <<"x">>, STM32Lx_FLASH_EEPROM_BASE, <<1, 515>> >> }

stm32lx_cmd_eeprom(argc, cmd, addr, val) ==
    /\ tgt.driver \in {"STM32L0", "STM32L1", "STM32L1 (protected)"}
    /\ Enter("stm32lx_cmd_eeprom",
             [ArgNone EXCEPT !.argc = argc, !.cmd = cmd, !.addr = addr, !.val = val],
             LocNone, "unlock")

\* stm32lx_cmd_eeprom after the unlock, up to the write's wait
cmd_eeprom_exec ==
    /\ pc = "cmd_eeprom"
    /\ LET block_size == eeprom_block_size(arg.cmd)
           ws == stm32lx_eeprom_write_one(fb, stm32lx_is_stm32l1(tgt.part_id), arg.addr,
                                          block_size, eeprom_mask(arg.val, block_size))
       IN  IF arg.argc = 4 /\ eeprom_addr_ok(arg.addr, tgt.part_id) /\ block_size # 0
              /\ eeprom_aligned(arg.addr, block_size)
           THEN /\ \E acc \in BOOLEAN :
                     /\ dev' = DevWrites(DevWrites(dev, SubSeq(ws, 1, 1), TRUE),
                                         SubSeq(ws, 2, 3), acc)
                     /\ loc' = [loc EXCEPT !.arm =
                                   Latched(DevWrite(dev, ws[2], acc), ws[2].bits)]
                /\ wlog' = wlog \o ws
                /\ nacc' = nacc + 3
                /\ pc' = "busy_wait"
                /\ ret' = ret
           ELSE cmd_usage
    /\ UNCHANGED <<chip, hist, tgt, terr, op, arg, tmo>>

\* after the write: the lock and the return
cmd_eeprom_done ==
    /\ pc = "cmd_done"
    /\ Store(stm32lx_nvm_lock(fb), TRUE)
    /\ nacc' = nacc + 1
    /\ Leave(TRUE)
    /\ UNCHANGED <<chip, hist, tgt, terr, op, arg, loc, tmo>>

(* -------------------------- call-stub driver -------------------------- *)
\* a logged step that is not a memory write: k names it, a and n are its arguments
Ev(k, a, n) == W(k, a, {}, ZERO32, <<n>>)

\* values the watchdog mode register may read as: off, on, on and protected
WdtModes == {{}, {0}, {0, 4}}

\* lpc546xx_reset_attach: reset, halt-resume with its step argument, attach
lpc546xx_reset_attach ==
    << Ev("target_reset", 0, 0), Ev("target_halt_resume", 0, 0), Ev("cortexm_attach", 0, 0) >>

\* lpc546xx_wdt_set_period: the read of the mode register, which returns
\* wdt_mode, and the write that depends on it
lpc546xx_wdt_set_period(wdt_mode) ==
    << W("r32", 1073790976, wdt_mode, ZERO32, <<>>) >> \o
    (IF wdt_mode # {} /\ (wdt_mode \cap {4}) = {}
     THEN << W("w32", 1073790980, {}, <<255, 65535>>, <<>>) >>
     ELSE <<>>)

\* lpc546xx_flash_init, given the watchdog mode register's value: what it
\* does to the target, in order
lpc546xx_flash_init(wdt_mode) ==
    lpc546xx_reset_attach \o lpc546xx_wdt_set_period(wdt_mode) \o
    << WVal(1073742464, ZERO32), WVal(1073742468, ZERO32),
       WVal(1073742720, ZERO32), WVal(1073742848, <<0, 26>>) >>

\* lpc546xx_flash_erase: the initialisation, then lpc_flash_erase, whose result
\* (true: erased) is the environment's
lpc546xx_flash_erase_log(addr, len, wdt_mode) ==
    lpc546xx_flash_init(wdt_mode) \o << Ev("lpc_flash_erase", addr, len) >>

\* whether the reset/attach sequence has run since the target was last reset
\* (or since the session began), after an operation with the given log
ResetState(was, log) ==
    IF \E i \in 1 .. Len(log) : log[i].k = "cortexm_attach" THEN TRUE
    ELSE IF \E i \in 1 .. Len(log) : log[i].k = "w_aircr" THEN FALSE
    ELSE was

\* an operation of the call-stub driver, complete: its log and its result
LpcDone(o, a, log, reads, r) ==
    /\ Frame(o, a, LocNone, "done", r, log, Len(log) + reads)
    /\ tgt' = [tgt EXCEPT !.reset_attached = ResetState(@, log)]
    /\ UNCHANGED <<chip, hist, dev, terr>>

\* the region's write operation: lpc_flash_write_magic_vect, registered as it
\* is by lpc546xx_add_flash, whose result (true: written) is the environment's
lpc_flash_write_magic_vect(fi, dest, len) ==
    /\ tgt.flash[fi].write = "lpc_flash_write_magic_vect"
    /\ \E written \in BOOLEAN :
          LpcDone("lpc_flash_write_magic_vect",
                  [ArgNone EXCEPT !.fi = fi, !.addr = dest, !.len = len],
                  << Ev("lpc_flash_write_magic_vect", dest, len) >>, 0, written)

\* the reset_attach command
lpc546xx_cmd_reset_attach ==
    /\ tgt.driver = "LPC546xx"
    /\ LpcDone("lpc546xx_cmd_reset_attach", ArgNone, lpc546xx_reset_attach, 0, TRUE)

\* the reset command: the system-reset key written to AIRCR (0xe000ed0c, named
\* by the kind of the logged write)
lpc546xx_cmd_reset ==
    /\ tgt.driver = "LPC546xx"
    /\ LpcDone("lpc546xx_cmd_reset", ArgNone, << W("w_aircr", 0, {}, <<1530, 4>>, <<>>) >>,
               0, TRUE)

lpc546xx_flash_erase(fi, addr, len) ==
    /\ tgt.flash[fi].erase = "lpc546xx_flash_erase"
    /\ \E wdt_mode \in WdtModes, erased \in BOOLEAN :
          LpcDone("lpc546xx_flash_erase",
                  [ArgNone EXCEPT !.fi = fi, !.addr = addr, !.len = len],
                  lpc546xx_flash_erase_log(addr, len, wdt_mode), 0, erased)

\* a faulty keepalive that feeds the two values in the other order
lpc546xx_wdt_kick_reversed ==
    /\ tgt.driver = "LPC546xx"
    /\ \E wdt_mode \in WdtModes :
          LpcDone("lpc546xx_wdt_kick", ArgNone,
                  << W("r32", 1073790976, wdt_mode, ZERO32, <<>>) >> \o
                  (IF wdt_mode # {}
                   THEN << WVal(1073790984, <<0, 255>>), WVal(1073790984, <<0, 170>>) >>
                   ELSE <<>>),
                  0, TRUE)

\* lpc546xx_wdt_kick, the keepalive hook the flash routines call: the read of
\* the mode register, which returns wdt_mode, and the two feed writes
lpc546xx_wdt_kick ==
    /\ tgt.driver = "LPC546xx"
    /\ \E wdt_mode \in WdtModes :
          LpcDone("lpc546xx_wdt_kick", ArgNone,
                  << W("r32", 1073790976, wdt_mode, ZERO32, <<>>) >> \o
                  (IF wdt_mode # {}
                   THEN << WVal(1073790984, <<0, 170>>), WVal(1073790984, <<0, 255>>) >>
                   ELSE <<>>),
                  0, TRUE)

\* the value lpc546xx_mass_erase returns, given the erase's boolean result:
\* the result is held in an int and compared against 0
lpc546xx_mass_erase_ret(erased) ==
    LET result == IF erased THEN 1 ELSE 0
    IN  result = 0

lpc546xx_mass_erase ==
    /\ tgt.mass_erase = "lpc546xx_mass_erase"
    /\ \E wdt_mode \in WdtModes, erased \in BOOLEAN :
          /\ Frame("lpc546xx_mass_erase",
                   [ArgNone EXCEPT !.fi = 1, !.addr = tgt.flash[1].start,
                                   !.len = tgt.flash[1].length],
                   [LocNone EXCEPT !.phase = IF erased THEN "erased" ELSE "erase failed",
                                   !.msgs = IF lpc546xx_mass_erase_ret(erased)
                                            THEN {} ELSE {"Error erasing flash"}],
                   "done", lpc546xx_mass_erase_ret(erased),
                   lpc546xx_flash_erase_log(tgt.flash[1].start, tgt.flash[1].length, wdt_mode),
                   Len(lpc546xx_flash_erase_log(tgt.flash[1].start, tgt.flash[1].length,
                                                wdt_mode)))
          /\ tgt' = [tgt EXCEPT !.reset_attached = TRUE]
          /\ UNCHANGED <<chip, hist, dev, terr>>

\* sector indices the model passes to the sector commands: the first, the
\* second, the last, and the first past the last
SectorArgs(fl) ==
    IF fl = <<>> THEN {}
    ELSE {0, 1, fl[1].length \div fl[1].blocksize - 1, fl[1].length \div fl[1].blocksize}

\* sector_addr of the sector commands, a uint32_t: n * blocksize modulo 2^32,
\* for a block size that is a power of two up to 65536
sector_addr(n, blocksize) == (n % (65536 * (65536 \div blocksize))) * blocksize

lpc546xx_cmd_erase_sector(argc, n) ==
    /\ tgt.driver = "LPC546xx"
    /\ IF argc > 1
       THEN \E wdt_mode \in WdtModes, erased \in BOOLEAN :
               LpcDone("lpc546xx_cmd_erase_sector",
                       [ArgNone EXCEPT !.argc = argc, !.fi = 1, !.len = 1,
                                       !.addr = sector_addr(n, tgt.flash[1].blocksize)],
                       lpc546xx_flash_erase_log(sector_addr(n, tgt.flash[1].blocksize), 1,
                                                wdt_mode), 0, erased)
       ELSE LpcDone("lpc546xx_cmd_erase_sector", [ArgNone EXCEPT !.argc = argc], <<>>, 0, TRUE)

\* a faulty test pattern that starts at 1
write_sector_pattern_from_one(i) == (i + 1) % 256

\* byte i of the test pattern of lpc546xx_cmd_write_sector
write_sector_pattern(i) == i % 256

\* lpc546xx_cmd_write_sector with argv[1] = n: arg.val is the index parsed,
\* arg.buf the buffer built for the write (bytes 0 .. sector_size - 1 at
\* positions 1 .. sector_size), loc.phase what the erase returned
lpc546xx_cmd_write_sector(argc, n) ==
    /\ tgt.driver = "LPC546xx"
    /\ IF argc > 1
       THEN \E wdt_mode \in WdtModes, erased \in BOOLEAN, written \in BOOLEAN :
               LET sector_size == tgt.flash[1].blocksize
                   a == sector_addr(n, sector_size)
                   buf == [i \in 1 .. sector_size |-> write_sector_pattern(i - 1)]
                   ar == [ArgNone EXCEPT !.argc = argc, !.fi = 1, !.addr = a,
                                         !.len = sector_size, !.val = <<0, n>>,
                                         !.buf = IF erased THEN buf ELSE <<>>]
                   log == lpc546xx_flash_erase_log(a, 1, wdt_mode) \o
                          (IF erased
                           THEN << Ev("lpc_flash_write_magic_vect", a, sector_size) >>
                           ELSE <<>>)
               IN  /\ Frame("lpc546xx_cmd_write_sector", ar,
                            [LocNone EXCEPT !.phase = IF erased THEN "erased"
                                                      ELSE "erase failed"],
                            "done", erased /\ written, log, Len(log))
                   /\ tgt' = [tgt EXCEPT !.reset_attached = ResetState(@, log)]
                   /\ UNCHANGED <<chip, hist, dev, terr>>
       ELSE LpcDone("lpc546xx_cmd_write_sector", [ArgNone EXCEPT !.argc = argc], <<>>, 0, TRUE)

(* --------------------------- specification ---------------------------- *)
Next ==
    \/ stm32l0_probe
    \/ stm32l1_probe
    \/ lpc546xx_probe
    \/ Detach
    \/ Return
    \/ TransportError
    \/ TimeoutExpires
    \/ nvm_prog_data_unlock
    \/ nvm_opt_unlock
    \/ nvm_busy_wait_loop
    \/ nvm_busy_wait_status
    \/ \E fi \in 1 .. Len(tgt.flash) : \E a \in EraseArgs(tgt.flash[fi]) :
          stm32lx_flash_erase(fi, a[1], a[2])
    \/ \E fi \in 1 .. Len(tgt.flash) : \E a \in EraseArgs(tgt.flash[fi]) :
          stm32lx_eeprom_erase(fi, a[1], a[2])
    \/ \E fi \in 1 .. Len(tgt.flash) : \E a \in EraseArgs(tgt.flash[fi]) :
          lpc546xx_flash_erase(fi, a[1], a[2])
    \/ \E fi \in 1 .. Len(tgt.flash) : \E a \in WriteArgs(tgt.flash[fi]) :
          stm32lx_flash_write(fi, a[1], a[2])
    \/ \E fi \in 1 .. Len(tgt.flash) : \E a \in WriteArgs(tgt.flash[fi]) :
          stm32lx_eeprom_write(fi, a[1], a[2])
    \/ stm32lx_protected_mass_erase
    \/ protected_mass_erase_wipe_step
    \/ protected_mass_erase_poll
    \/ stm32lx_protected_attach
    \/ cortexm_attach
    \/ \E a \in OptionArgs : stm32lx_cmd_option(a[1], a[2], a[3], a[4])
    \/ cmd_option_exec
    \/ cmd_option_report
    \/ \E a \in EepromArgs : stm32lx_cmd_eeprom(a[1], a[2], a[3], a[4])
    \/ cmd_eeprom_exec
    \/ cmd_eeprom_done
    \/ lpc546xx_mass_erase
    \/ lpc546xx_wdt_kick
    \/ \E fi \in 1 .. Len(tgt.flash) :
          lpc_flash_write_magic_vect(fi, tgt.flash[fi].start, tgt.flash[fi].writesize)
    \/ lpc546xx_cmd_reset_attach
    \/ lpc546xx_cmd_reset
    \/ \E argc \in {1, 2}, n \in SectorArgs(tgt.flash) : lpc546xx_cmd_erase_sector(argc, n)
    \/ \E argc \in {1, 2}, n \in SectorArgs(tgt.flash) : lpc546xx_cmd_write_sector(argc, n)
    \/ flash_erase_arm
    \/ flash_erase_trigger
    \/ flash_erase_lock
    \/ flash_write_prog
    \/ eeprom_erase_arm
    \/ eeprom_erase_trigger
    \/ eeprom_erase_lock
    \/ eeprom_write_arm
    \/ eeprom_write_word
    \/ eeprom_write_lock

Spec == Init /\ [][Next]_vars

(* ------- sessions in which the content of memory is followed ---------- *)
\* an unprotected STM32L0 whose first MaxWords words of program flash and of
\* EEPROM are followed
InitMem == Start({Chip("L0", ID_STM32L01x, ID_STM32L01x, 1, ZERO32, MaxWords)},
                 {STM32Lx_FLASH_OPTR_RDPROT_0})

\* erase and write of the first n words of a region, n up to MaxWords
MemEraseArgs(f) == {<<f.start, 4 * n>> : n \in 1 .. MaxWords}
MemWriteArgs(f) == {<<f.start, b>> : b \in Buffers}

NextMem ==
    \/ stm32l0_probe
    \/ Return
    \/ nvm_prog_data_unlock
    \/ nvm_busy_wait_loop
    \/ nvm_busy_wait_status
    \/ \E fi \in 1 .. Len(tgt.flash) : \E a \in MemEraseArgs(tgt.flash[fi]) :
          stm32lx_flash_erase(fi, a[1], a[2])
    \/ \E fi \in 1 .. Len(tgt.flash) : \E a \in MemEraseArgs(tgt.flash[fi]) :
          stm32lx_eeprom_erase(fi, a[1], a[2])
    \/ \E fi \in 1 .. Len(tgt.flash) : \E a \in MemWriteArgs(tgt.flash[fi]) :
          stm32lx_flash_write(fi, a[1], a[2])
    \/ \E fi \in 1 .. Len(tgt.flash) : \E a \in MemWriteArgs(tgt.flash[fi]) :
          stm32lx_eeprom_write(fi, a[1], a[2])
    \/ flash_erase_arm
    \/ flash_erase_trigger
    \/ flash_erase_lock
    \/ flash_write_prog
    \/ eeprom_erase_arm
    \/ eeprom_erase_trigger
    \/ eeprom_erase_lock
    \/ eeprom_write_arm
    \/ eeprom_write_word
    \/ eeprom_write_lock

SpecMem == InitMem /\ [][NextMem]_vars

(* The option command alone, on one unprotected STM32L1, with a wider set of *)
(* values for the first option word.                                        *)
OptionLawVals ==
    {<<h, l>> : h \in {0, 4660, 65365, 65535}, l \in {0, 170, 43690, 65535}}

NextOpt ==
    \/ stm32l1_probe
    \/ Return
    \/ \E cmd \in {Keyword.write, Keyword.raw, <<"w">>}, val \in OptionLawVals :
          stm32lx_cmd_option(4, cmd, STM32Lx_FLASH_OPT_BASE, val)
    \/ stm32lx_cmd_option(2, <<"s", "h", "o", "w">>, 0, ZERO32)
    \/ nvm_opt_unlock
    \/ cmd_option_exec
    \/ nvm_busy_wait_loop
    \/ nvm_busy_wait_status
    \/ cmd_option_report

SpecOpt ==
    Start({Chip("L1", 0, 1046, 0, ZERO32, 0)}, {STM32Lx_FLASH_OPTR_RDPROT_0}) /\ [][NextOpt]_vars

(* The mass erase alone, on one STM32L0 with 1 KiB of program flash.         *)
NextMass ==
    \/ stm32l0_probe
    \/ Return
    \/ stm32lx_mass_erase
    \/ mass_erase_next
    \/ nvm_prog_data_unlock
    \/ flash_erase_arm
    \/ flash_erase_trigger
    \/ flash_erase_lock
    \/ nvm_busy_wait_loop
    \/ nvm_busy_wait_status

SpecMass ==
    Start({Chip("L0", ID_STM32L01x, ID_STM32L01x, 1, ZERO32, 0)}, RdprotVals) /\ [][NextMass]_vars

(* The probes alone, on every part the drivers know and on some they do    *)
(* not, the STM32L0 parts with a range of flash-size register values.       *)
ProbeChips ==
    {Chip("L0", id, id, fsz, ZERO32, 0) :
        id \in {ID_STM32L01x, ID_STM32L03x, ID_STM32L05x, ID_STM32L07x},
        fsz \in {0, 1, 16, 192, 512, 513, 65535}} \cup
    {Chip("L0", 1040, 1040, 64, ZERO32, 0)} \cup
    {Chip("L1", 0, p, 0, ZERO32, 0) : p \in {1046, 1065, 1063, 1078, 1079, 1040}} \cup
    {Chip("LPC", 0, 0, 0, <<h, l>>, 0) :
        h \in {32661, 65525}, l \in {17925, 17926, 17927, 17928, 17942, 17944, 17960}} \cup
    {Chip("LPC", 0, 0, 0, ZERO32, 0)}

NextProbe ==
    \/ stm32l0_probe
    \/ stm32l1_probe
    \/ lpc546xx_probe
    \/ Return
    \/ Detach

SpecProbe == Start(ProbeChips, RdprotVals) /\ [][NextProbe]_vars

(* ============================== claims ================================ *)
RegionOps ==
    {"stm32lx_flash_erase", "stm32lx_flash_write", "stm32lx_eeprom_erase",
     "stm32lx_eeprom_write"}
Last(q) == q[Len(q)]
InRegion(f, addr, len) == addr >= f.start /\ addr + len <= f.start + f.length

(* C1: whenever one of the four region operations returns after its unlock  *)
(* succeeded, the last write it issued is the lock write PECR := PELOCK     *)
(* and the device's control register is locked.                             *)
C1_RelockOnEveryReturn ==
    (pc = "done" /\ op \in RegionOps /\ loc.unlocked)
        => /\ Last(wlog) = WReg(STM32Lx_FLASH_PECR(fb), STM32Lx_FLASH_PECR_PELOCK)
           /\ STM32Lx_FLASH_PECR_PELOCK \subseteq dev.pecr

(* C2: a write that reports success, directly after a successful erase of   *)
(* the same range at the start of the region, leaves every word of the      *)
(* range holding the corresponding word of the source buffer.               *)
C2_EraseWriteRead ==
    (/\ pc = "done" /\ ret
     /\ op \in {"stm32lx_flash_write", "stm32lx_eeprom_write"}
     /\ hist = [op |-> Region.erase, addr |-> arg.addr, len |-> arg.len, ret |-> TRUE]
     /\ InRegion(Region, arg.addr, arg.len)
     /\ arg.addr % Region.blocksize = 0)
        => \A k \in 1 .. Len(arg.buf) : dev.mem[arg.addr + 4 * (k - 1)] = arg.buf[k]

(* C3: on a target probed as protected, every erase or write of a region    *)
(* fails and has issued no transport access.                                *)
C3_ProtectedRefuses ==
    (pc = "done" /\ tgt.driver = "STM32L1 (protected)" /\ op \in RegionOps)
        => (~ret /\ nacc = 0)

(* C4: the protection-clearing mass erase reports success only if the       *)
(* device's read protection is then at level 0.                             *)
C4_SuccessMeansUnprotected ==
    (pc = "done" /\ op = "stm32lx_protected_mass_erase" /\ ret)
        => dev.rdprot = STM32Lx_FLASH_OPTR_RDPROT_0

(* C5: an erase or write whose range does not lie within its region, and an *)
(* erase of a sector past the last one, fails and has issued no transport   *)
(* access.                                                                  *)
C5_OutOfRangeRejected ==
    (/\ pc = "done"
     /\ \/ op \in RegionOps \cup {"lpc546xx_flash_erase"}
        \/ op = "lpc546xx_cmd_erase_sector" /\ arg.argc > 1
     /\ ~InRegion(Region, arg.addr, arg.len))
        => (~ret /\ nacc = 0)

(* C6: lpc546xx_mass_erase returns ok exactly when its erase succeeded, and *)
(* prints its error message exactly when the erase failed.                  *)
C6_MassEraseReportsErase ==
    (pc = "done" /\ op = "lpc546xx_mass_erase")
        => /\ ret <=> (loc.phase = "erased")
           /\ ("Error erasing flash" \in loc.msgs) <=> (loc.phase = "erase failed")

(* C7: once the deadline of a poll loop has passed, the next evaluation of  *)
(* the loop (the next read of the status register) leaves the loop.         *)
C7_PollEndsAtTimeout ==
    [][(pc \in {"busy_wait", "pme_poll"} /\ tmo.expired /\ nacc' # nacc) => pc' # pc]_vars

(* C8: an operation during whose polling the transport reported an error    *)
(* returns failure.                                                         *)
C8_TransportErrorFails ==
    (pc = "done" /\ tmo.perr /\ op \in RegionOps \cup {"stm32lx_protected_mass_erase"})
        => ~ret

(* C9: every operation begins with the lock write and the two key pairs in  *)
(* order (PE keys, then program keys or option keys), reports the unlock as *)
(* successful iff the lock bit reads clear, and after a failed unlock       *)
(* returns without any further write.                                       *)
C9_UnlockSequence ==
    (op \in ProgDataOps \cup OptOps /\ pc # "unlock")
        => /\ Len(wlog) >= 5
           /\ SubSeq(wlog, 1, 3) =
                << WReg(STM32Lx_FLASH_PECR(fb), STM32Lx_FLASH_PECR_PELOCK),
                   WVal(STM32Lx_FLASH_PEKEYR(fb), STM32Lx_FLASH_PEKEY1),
                   WVal(STM32Lx_FLASH_PEKEYR(fb), STM32Lx_FLASH_PEKEY2) >>
           /\ SubSeq(wlog, 4, 5) =
                IF op \in OptOps
                THEN << WVal(STM32Lx_FLASH_OPTKEYR(fb), STM32Lx_FLASH_OPTKEY1),
                        WVal(STM32Lx_FLASH_OPTKEYR(fb), STM32Lx_FLASH_OPTKEY2) >>
                ELSE << WVal(STM32Lx_FLASH_PRGKEYR(fb), STM32Lx_FLASH_PRGKEY1),
                        WVal(STM32Lx_FLASH_PRGKEYR(fb), STM32Lx_FLASH_PRGKEY2) >>
           /\ Len(wlog) = 5 =>
                (loc.unlocked <=>
                    (dev.pecr \cap (IF op \in OptOps THEN STM32Lx_FLASH_PECR_OPTLOCK
                                                     ELSE STM32Lx_FLASH_PECR_PRGLOCK)) = {})
           /\ ~loc.unlocked => (pc = "done" /\ Len(wlog) = 5 /\ nacc = 6)

\* an operation has returned right after a program/data unlock whose second
\* key stage did not clear PRGLOCK
C9_Witness ==
    /\ pc = "done" /\ op \in ProgDataOps /\ ~loc.unlocked /\ Len(wlog) = 5
    /\ STM32Lx_FLASH_PECR_PRGLOCK \subseteq dev.pecr
    /\ STM32Lx_FLASH_PECR_PELOCK \cap dev.pecr = {}

(* C10: when the unlock failed, the operation returns with the control      *)
(* register locked (PELOCK set).                                            *)
C10_FailedUnlockLeavesLocked ==
    (pc = "done" /\ op \in ProgDataOps \cup OptOps /\ ~loc.unlocked)
        => STM32Lx_FLASH_PECR_PELOCK \subseteq dev.pecr

(* C11: an operation whose operation-select bits did not latch in the       *)
(* control register returns failure and has written nothing to its target   *)
(* range (to any address other than the flash controller's registers).      *)
C11_NoTriggerUnlessLatched ==
    LET ControlRegs ==
            {STM32Lx_FLASH_PECR(fb), STM32Lx_FLASH_PEKEYR(fb), STM32Lx_FLASH_PRGKEYR(fb),
             STM32Lx_FLASH_OPTKEYR(fb), STM32Lx_FLASH_SR(fb)}
    IN  (op \in ProgDataOps \cup OptOps /\ loc.arm = "refused")
            => /\ pc = "done" /\ ~ret
               /\ \A i \in 1 .. Len(wlog) : wlog[i].a \in ControlRegs

(* C12: an error flag left in the status register by an earlier operation   *)
(* does not make a later region operation fail: an operation that unlocked, *)
(* whose operation-select bits latched, during which the device raised no   *)
(* error and the transport reported none, returns success.                  *)
C12_StaleErrorNotReported ==
    (/\ pc = "done" /\ op \in RegionOps
     /\ loc.unlocked /\ loc.arm = "latched"
     /\ dev.raised = {} /\ ~tmo.perr /\ ~terr)
        => ret

(* C13: for a block-aligned addr, the trigger writes of stm32lx_flash_erase *)
(* are 32-bit zeros at addr, addr + blocksize, ... in ascending order, one  *)
(* per block, and when the trigger loop has ended there are exactly         *)
(* ceil(len / blocksize) of them; nothing else is written outside the       *)
(* flash controller's registers.                                            *)
C13_FlashEraseTriggers ==
    LET bs == Region.blocksize
        n == (arg.len + bs - 1) \div bs
        IsTrigger(w) == w.a \notin {STM32Lx_FLASH_PECR(fb), STM32Lx_FLASH_PEKEYR(fb),
                                    STM32Lx_FLASH_PRGKEYR(fb), STM32Lx_FLASH_SR(fb)}
        trig == SelectSeq(wlog, IsTrigger)
    IN  (op = "stm32lx_flash_erase" /\ arg.addr % bs = 0 /\ arg.len >= 1)
            => /\ Len(trig) <= n
               /\ \A k \in 1 .. Len(trig) : trig[k] = WVal(arg.addr + (k - 1) * bs, ZERO32)
               /\ (loc.arm = "latched" /\ pc # "fe_trigger") => Len(trig) = n

\* a flash erase of one block and one byte has returned success after two triggers
C13_Witness ==
    /\ pc = "done" /\ ret /\ op = "stm32lx_flash_erase"
    /\ arg.len = Region.blocksize + 1
    /\ Len(wlog) = 10
    /\ wlog[9] = WVal(arg.addr + Region.blocksize, ZERO32)

C15_OptionEncoding ==
    op = "stm32lx_cmd_option"
        => /\ (Len(wlog) >= 7 /\ wlog[6] = WReg(STM32Lx_FLASH_PECR(fb), STM32Lx_FLASH_PECR_FIX))
                => /\ wlog[7].a = arg.addr
                   /\ IF Len(arg.cmd) <= 3 /\ arg.cmd = SubSeq(<<"r", "a", "w">>, 1, Len(arg.cmd))
                      THEN wlog[7].val = arg.val
                      ELSE /\ wlog[7].val[2] = arg.val[2]
                           /\ wlog[7].val[1] + wlog[7].val[2] = 65535
                           /\ option_report(wlog[7].val) = "OK"
           /\ (pc = "done" /\ loc.unlocked /\ "usage" \notin loc.msgs)
                => /\ ("OK" \in loc.msgs) <=> (dev.optw[1] + dev.optw[2] = 65535)
                   /\ ("ERR" \in loc.msgs) <=> (dev.optw[1] + dev.optw[2] # 65535)

\* a non-raw write of a value with a non-zero high half has been performed and
\* reported OK
C15_Witness ==
    /\ pc = "done" /\ op = "stm32lx_cmd_option"
    /\ arg.cmd = <<"w", "r", "i", "t", "e">> /\ arg.val = <<4660, 170>>
    /\ dev.optw = <<65365, 170>>
    /\ loc.msgs = {"OK"}

(* C16: an EEPROM command rejected by validation with the usage text        *)
(* (half-word write to an odd address, word write to an address not a       *)
(* multiple of 4, any address outside the EEPROM window) has issued no      *)
(* transport access when it returns.                                        *)
C16_RejectedEepromNoAccess ==
    (/\ pc = "done" /\ op = "stm32lx_cmd_eeprom" /\ arg.argc = 4
     /\ "usage" \in loc.msgs
     /\ \/ arg.cmd = <<"h", "a", "l", "f", "w", "o", "r", "d">> /\ arg.addr % 2 = 1
        \/ arg.cmd = <<"w", "o", "r", "d">> /\ arg.addr % 4 # 0
        \/ arg.addr < STM32Lx_FLASH_EEPROM_BASE
        \/ arg.addr >= STM32Lx_FLASH_EEPROM_BASE + stm32lx_nvm_eeprom_size(tgt.part_id))
        => (nacc = 0 /\ wlog = <<>>)

(* C17: on the call-stub device no flash write reaches the device unless    *)
(* the reset/attach sequence has run since the target was last reset or the *)
(* session began.                                                           *)
C17_WriteAfterResetAttach ==
    (/\ pc = "done"
     /\ \E i \in 1 .. Len(wlog) : wlog[i].k = "lpc_flash_write_magic_vect")
        => \/ tgt.reset_attached /\ op = "lpc_flash_write_magic_vect"
           \/ /\ op = "lpc546xx_cmd_write_sector"
              /\ \E i \in 1 .. Len(wlog) : wlog[i].k = "cortexm_attach"

(* C18: the flash initialisation before an erase and the reset_attach       *)
(* command both begin with the same three steps, nothing in between: full   *)
(* target reset, a halt-resume that single-steps (step argument true), the  *)
(* debug attach.                                                            *)
C18_ResetStepAttach ==
    (/\ pc = "done"
     /\ \/ op \in {"lpc546xx_cmd_reset_attach", "lpc546xx_flash_erase", "lpc546xx_mass_erase"}
        \/ op \in {"lpc546xx_cmd_erase_sector", "lpc546xx_cmd_write_sector"} /\ arg.argc > 1)
        => /\ Len(wlog) >= 3
           /\ SubSeq(wlog, 1, 3) =
                << Ev("target_reset", 0, 0), Ev("target_halt_resume", 0, 1),
                   Ev("cortexm_attach", 0, 0) >>

(* C19: a successful multi-block erase of a whole region by                 *)
(* stm32lx_flash_erase performs a watchdog keepalive between its first      *)
(* trigger write and its return: after the first trigger there is a write   *)
(* to a register outside the flash controller and outside the erased range. *)
C19_WatchdogFedDuringFullErase ==
    (/\ pc = "done" /\ ret /\ op = "stm32lx_flash_erase"
     /\ loc.full_erase /\ arg.len > Region.blocksize)
        => \E i \in 8 .. Len(wlog) :
              /\ wlog[i].a \notin {STM32Lx_FLASH_PECR(fb), STM32Lx_FLASH_SR(fb)}
              /\ ~(wlog[i].a >= arg.addr /\ wlog[i].a < arg.addr + arg.len)

(* C20: stm32lx_mass_erase erases every region of the target by the erase   *)
(* function the region was registered with: the operation-select write for  *)
(* an EEPROM region is ERASE|DATA, for a program-flash region ERASE|PROG,   *)
(* and a mass erase that returns true has gone through the whole list.      *)
C20_MassEraseUsesRegionErase ==
    /\ (loc.mass > 0 /\ loc.arm # "")
          => wlog[6] = WReg(STM32Lx_FLASH_PECR(fb),
                            STM32Lx_FLASH_PECR_ERASE \cup
                               (IF Region.erase = "stm32lx_eeprom_erase"
                                THEN STM32Lx_FLASH_PECR_DATA
                                ELSE STM32Lx_FLASH_PECR_PROG))
    /\ (pc = "done" /\ op = "stm32lx_mass_erase" /\ ret) => arg.fi = Len(tgt.flash)

(* C21: a successful probe of either family installs the restricted surface *)
(* (protected attach, protection-clearing mass erase) exactly when the      *)
(* device's read-protection level is not 0, and the normal surface          *)
(* otherwise.                                                               *)
C21_ProbeInstallsSurface ==
    (pc = "done" /\ ret /\ op \in {"stm32l0_probe", "stm32l1_probe"})
        => IF stm32lx_prot_level(dev.rdprot) # 0
           THEN /\ tgt.attach = "stm32lx_protected_attach"
                /\ tgt.mass_erase = "stm32lx_protected_mass_erase"
           ELSE /\ tgt.attach # "stm32lx_protected_attach"
                /\ tgt.mass_erase = "stm32lx_mass_erase"

(* C22: stm32lx_protected_mass_erase, once the option unlock has succeeded, *)
(* writes 0xffff0000 to the option window, OBL_LAUNCH to PECR, 0xff5500aa   *)
(* to the option window, OBL_LAUNCH to PECR, polls, and only when the poll  *)
(* has ended writes PELOCK to PECR; when the unlock fails it issues nothing *)
(* but the unlock writes and returns false.                                 *)
C22_ProtectedMassEraseSequence ==
    LET unlock == stm32lx_nvm_opt_unlock(fb)
        wipe == << WVal(STM32Lx_FLASH_OPT_BASE, <<65535, 0>>),
                   WReg(STM32Lx_FLASH_PECR(fb), STM32Lx_FLASH_PECR_OBL_LAUNCH),
                   WVal(STM32Lx_FLASH_OPT_BASE, <<65365, 170>>),
                   WReg(STM32Lx_FLASH_PECR(fb), STM32Lx_FLASH_PECR_OBL_LAUNCH) >>
        lock == WReg(STM32Lx_FLASH_PECR(fb), STM32Lx_FLASH_PECR_PELOCK)
    IN  op = "stm32lx_protected_mass_erase" =>
          /\ pc = "pme_wipe" => wlog = unlock
          /\ pc = "pme_poll" => wlog = unlock \o wipe
          /\ (pc = "done" /\ loc.unlocked) => (ret /\ wlog = unlock \o wipe \o <<lock>>)
          /\ (pc = "done" /\ ~loc.unlocked) => (~ret /\ wlog = unlock)

C22_Witness ==
    /\ pc = "done" /\ op = "stm32lx_protected_mass_erase"
    /\ loc.unlocked /\ tmo.polls > 0 /\ Len(wlog) = 10

(* C23: lpc546xx_probe gives each of the four J256 chip IDs one flash       *)
(* region at 0 of 0x40000 bytes and each of the seven J512 chip IDs one of  *)
(* 0x80000 bytes, with block size 0x8000 and write size 4096, and one RAM   *)
(* window at 0x20000000; for any other chip ID it returns false and the     *)
(* target is as it was (no region, RAM window, command list or mass erase). *)
C23_LpcProbeMap ==
    LET J256 == {<<32661, 17925>>, <<32661, 17926>>, <<32661, 17927>>, <<32661, 17942>>}
        J512 == {<<65525, 17925>>, <<65525, 17926>>, <<65525, 17927>>, <<65525, 17928>>,
                 <<65525, 17942>>, <<65525, 17944>>, <<65525, 17960>>}
    IN  (pc = "done" /\ op = "lpc546xx_probe") =>
          IF chip.chipid \in J256 \cup J512
          THEN /\ ret
               /\ Len(tgt.flash) = 1
               /\ tgt.flash[1].start = 0
               /\ tgt.flash[1].length = (IF chip.chipid \in J256 THEN 262144 ELSE 524288)
               /\ tgt.flash[1].blocksize = 32768
               /\ tgt.flash[1].writesize = 4096
               /\ Len(tgt.ram) = 1
               /\ tgt.ram[1].start = 536870912
          ELSE /\ ~ret
               /\ tgt.flash = <<>> /\ tgt.ram = <<>>
               /\ tgt.commands = "" /\ tgt.mass_erase = "" /\ tgt.driver = ""

C23_Witness ==
    /\ pc = "done" /\ op = "lpc546xx_probe" /\ ret
    /\ chip.chipid = <<32661, 17942>> /\ Len(tgt.flash) = 1

(* C24: after a successful stm32l0_probe the registered regions (program    *)
(* flash bank or banks, EEPROM at 0x08080000) do not overlap one another,   *)
(* whatever the flash-size register held; on a category 5 part the two      *)
(* banks are adjacent, equal in size and cover the reported flash size.     *)
C24_L0RegionsDisjoint ==
    (pc = "done" /\ op = "stm32l0_probe" /\ ret) =>
        /\ \A i \in 1 .. Len(tgt.flash) : \A j \in 1 .. Len(tgt.flash) :
              i < j => \/ tgt.flash[i].start + tgt.flash[i].length <= tgt.flash[j].start
                       \/ tgt.flash[j].start + tgt.flash[j].length <= tgt.flash[i].start
        /\ tgt.part_id = ID_STM32L07x =>
              /\ Len(tgt.flash) = 3
              /\ tgt.flash[1].start = STM32Lx_FLASH_BANK_BASE
              /\ tgt.flash[2].start = tgt.flash[1].start + tgt.flash[1].length
              /\ tgt.flash[1].length = tgt.flash[2].length
              /\ tgt.flash[1].length + tgt.flash[2].length = chip.fsz * 1024

(* C25: in an erase or write of a region the lock write to PECR comes only  *)
(* after the busy poll has ended: while the operation polls after its       *)
(* trigger or data writes, its latest write is not the lock write.          *)
C25_LockAfterPoll ==
    (/\ op \in RegionOps
     /\ pc \in {"busy_wait", "busy_wait_status"}
     /\ loc.arm = "latched")
        => Last(wlog) # WReg(STM32Lx_FLASH_PECR(fb), STM32Lx_FLASH_PECR_PELOCK)

(* C26: stm32lx_nvm_busy_wait succeeds exactly when its loop ended on BSY   *)
(* read as clear, no transport error is pending at the final check and the *)
(* final status has none of WRPERR, PGAERR, SIZERR, NOTZEROERR; it leaves   *)
(* the loop early only on a transport error, and then fails.  Stated on the *)
(* region operations, which return the wait's result.                       *)
C26_BusyWaitVerdict ==
    [][/\ (op \in RegionOps /\ pc = "busy_wait_status" /\ pc' = "done")
             => (ret' <=> /\ ~terr
                          /\ dev.srerr \cap (STM32Lx_FLASH_SR_WRPERR \cup STM32Lx_FLASH_SR_PGAERR
                                             \cup STM32Lx_FLASH_SR_SIZERR
                                             \cup STM32Lx_FLASH_SR_NOTZEROERR) = {})
       /\ (op \in RegionOps /\ pc = "busy_wait" /\ pc' = "done") => (terr /\ ~ret')]_vars

C26_Witness ==
    /\ pc = "done" /\ op \in RegionOps /\ ~ret
    /\ loc.arm = "latched" /\ tmo.perr /\ tmo.polls = 0 /\ dev.srerr = {}

C28_WatchdogHooks ==
    LET WDT_MODE == 1073790976
        WDT_CNT == 1073790980
        WDT_FEED == 1073790984
    IN  /\ (pc = "done" /\ op = "lpc546xx_wdt_kick") =>
              /\ wlog[1].k = "r32" /\ wlog[1].a = WDT_MODE
              /\ SubSeq(wlog, 2, Len(wlog)) =
                    IF wlog[1].bits # {}
                    THEN << WVal(WDT_FEED, <<0, 170>>), WVal(WDT_FEED, <<0, 255>>) >>
                    ELSE << >>
        /\ (pc = "done" /\ op = "lpc546xx_flash_erase") =>
              /\ wlog[4].k = "r32" /\ wlog[4].a = WDT_MODE
              /\ LET on == wlog[4].bits # {} /\ 4 \notin wlog[4].bits
                     cnt == {i \in 1 .. Len(wlog) : wlog[i].k = "w32" /\ wlog[i].a = WDT_CNT}
                 IN  IF on THEN cnt = {5} /\ wlog[5].val = <<255, 65535>>
                           ELSE cnt = {}

C28_Witness ==
    /\ pc = "done" /\ op = "lpc546xx_wdt_kick"
    /\ wlog[1].bits # {} /\ Len(wlog) = 3

C30_CommandsValidateAddress ==
    LET ControlRegs ==
            {STM32Lx_FLASH_PECR(fb), STM32Lx_FLASH_PEKEYR(fb), STM32Lx_FLASH_PRGKEYR(fb),
             STM32Lx_FLASH_OPTKEYR(fb), STM32Lx_FLASH_SR(fb)}
        data == {i \in 1 .. Len(wlog) : wlog[i].a \notin ControlRegs}
        L0 == tgt.part_id \in {ID_STM32L01x, ID_STM32L03x, ID_STM32L05x, ID_STM32L07x}
        opt_end == STM32Lx_FLASH_OPT_BASE +
                      (IF L0 THEN STM32L0_FLASH_OPT_SIZE ELSE STM32L1_FLASH_OPT_SIZE)
        ee_end == STM32Lx_FLASH_EEPROM_BASE +
                     (IF tgt.part_id = ID_STM32L01x THEN STM32L0_FLASH_EEPROM_CAT1_SIZE
                      ELSE IF tgt.part_id = ID_STM32L03x THEN STM32L0_FLASH_EEPROM_CAT2_SIZE
                      ELSE IF tgt.part_id = ID_STM32L05x THEN STM32L0_FLASH_EEPROM_CAT3_SIZE
                      ELSE IF tgt.part_id = ID_STM32L07x THEN STM32L0_FLASH_EEPROM_CAT5_SIZE
                      ELSE STM32L1_FLASH_EEPROM_SIZE)
        width(w) == IF w.k = "w32" THEN 4 ELSE IF w.k = "w16" THEN 2 ELSE 1
        unit == eeprom_block_size(arg.cmd)
        locked == (pc = "done" /\ loc.unlocked)
                     => Last(wlog) = WReg(STM32Lx_FLASH_PECR(fb), STM32Lx_FLASH_PECR_PELOCK)
    IN  /\ op = "stm32lx_cmd_option" =>
              /\ \A i \in data :
                    /\ wlog[i].a % 4 = 0
                    /\ wlog[i].a >= STM32Lx_FLASH_OPT_BASE /\ wlog[i].a < opt_end
              /\ (/\ pc = "done" /\ loc.unlocked /\ arg.argc = 4
                  /\ Matches(arg.cmd, Keyword.raw) \/ Matches(arg.cmd, Keyword.write)
                  /\ \/ arg.addr % 4 # 0
                     \/ arg.addr < STM32Lx_FLASH_OPT_BASE
                     \/ arg.addr >= opt_end)
                    => ("usage" \in loc.msgs /\ data = {})
              /\ locked
        /\ op = "stm32lx_cmd_eeprom" =>
              /\ \A i \in data :
                    /\ width(wlog[i]) = unit
                    /\ wlog[i].a % unit = 0
                    /\ wlog[i].a >= STM32Lx_FLASH_EEPROM_BASE
                    /\ wlog[i].a + unit <= ee_end
              /\ (/\ pc = "done" /\ loc.unlocked /\ arg.argc = 4
                  /\ \/ unit = 0
                     \/ arg.addr % unit # 0
                     \/ arg.addr < STM32Lx_FLASH_EEPROM_BASE
                     \/ arg.addr >= ee_end)
                    => ("usage" \in loc.msgs /\ data = {})
              /\ locked

C30_Witness ==
    /\ pc = "done" /\ op = "stm32lx_cmd_eeprom" /\ loc.unlocked
    /\ arg.argc = 4 /\ eeprom_block_size(arg.cmd) = 2 /\ arg.addr % 2 = 1
    /\ "usage" \in loc.msgs

(* C31: the protection state is the one decided at probe: on a target       *)
(* probed as protected the attach handler is the protected attach until it  *)
(* is first called, that call returns true without any access to the device *)
(* and leaves the plain attach installed, and the mass-erase handler stays  *)
(* the protection-clearing one through every attach and mass erase, also    *)
(* once the device's protection has been cleared.                           *)
C31_ProtectionCachedAtProbe ==
    /\ tgt.driver = "STM32L1 (protected)" =>
          /\ tgt.mass_erase = "stm32lx_protected_mass_erase"
          /\ tgt.attach \in {"stm32lx_protected_attach", "cortexm_attach"}
          /\ (pc = "done" /\ op = "stm32l1_probe") => tgt.attach = "stm32lx_protected_attach"
    /\ (pc = "done" /\ op = "stm32lx_protected_attach") =>
          /\ tgt.driver = "STM32L1 (protected)"
          /\ ret /\ nacc = 0 /\ wlog = <<>>
          /\ tgt.attach = "cortexm_attach"

C31_Witness ==
    /\ pc = "done" /\ op = "cortexm_attach"
    /\ tgt.driver = "STM32L1 (protected)"
    /\ dev.rdprot = STM32Lx_FLASH_OPTR_RDPROT_0
    /\ tgt.mass_erase = "stm32lx_protected_mass_erase"
====
